---- MODULE Spec2Model ----
(***************************************************************************)
(* Waydown backend: the REST handlers of the spots, users, auth and        *)
(* community routers, the two revisions of authMiddleware and the          *)
(* controllers, as a state machine over the User, Spot and Post            *)
(* collections.                                                            *)
(*                                                                         *)
(* The repository holds two revisions side by side.  The Firebase revision *)
(* identifies a caller by req.user.uid (routes/spotsRoute.js,              *)
(* routes/usersRoute.js, routes/communityRoute.js and the community and    *)
(* auth routers kept as unnamed parts); the JWT revision identifies a      *)
(* caller by req.user.userId (controller/*.js, routes/authRoutes.js).      *)
(* Every handler is run behind the middleware revision that sets the       *)
(* field of req.user the handler reads.                                    *)
(*                                                                         *)
(* A document id (_id) prints as a 24-digit hex string and a Firebase uid  *)
(* is issued by the identity provider, so the two are modelled as disjoint *)
(* sets of strings ("o.." and "s.." against "f..").                        *)
(***************************************************************************)
EXTENDS Integers, Sequences, FiniteSets, TLC

VARIABLES users, spots, posts, last, rooms, pending, now, issued

vars == <<users, spots, posts, last, rooms, pending, now, issued>>

----------------------------------------------------------------------------
(* Bounds of the model *)

MaxViews == 1
MaxLikes == 1
MaxComments == 1
MaxReports == 1
MaxPhotos == 1
(* seconds on the clock, and refresh tokens a user may hold *)
MaxTime == 1
MaxTokens == 2
(* reports of one spot where repeated reports are followed *)
MaxRepeats == 2
(* entries of a following list at which a further follow is still begun *)
MaxFollows == 1

----------------------------------------------------------------------------
(* Values *)

Undefined == "undefined"
NoDoc == [missing |-> TRUE]

UserIds == {"o1", "o2", "o3", "o4"}
Uids == {"f1", "f2", "f3", "f4"}
SpotIds == {"s1", "s2"}
SpotOrder == <<"s1", "s2">>
PostIds == {"p1", "p2"}
Statuses == {"pending", "approved", "rejected"}
Names == {"n1", "n2"}
Tags == {"Nature", "Temples"}
(* UserSchema.interests default, among the tags of the model *)
DefaultInterests == {"Nature"}

OldEmail == [f \in Uids |-> CASE f = "f1" -> "e1" [] f = "f2" -> "e2"
                              [] f = "f3" -> "e3" [] OTHER -> "e4"]
NewEmail == [f \in Uids |-> CASE f = "f1" -> "m1" [] f = "f2" -> "m2"
                              [] f = "f3" -> "m3" [] OTHER -> "m4"]

(* The User collection a deployment starts from: the admin account made by
   the createAdmin script and two registered users; identity f4 (o4 in the
   JWT revision) has a valid token but no User document. *)
NewUser(uid, email, admin) ==
  [uid |-> uid, email |-> email, isAdmin |-> admin, followers |-> <<>>,
   following |-> <<>>, interests |-> DefaultInterests, refreshTokens |-> <<>>,
   notificationsEnabled |-> TRUE]

(* User o2 follows user o3, and has both tags as interests *)
InitUsers ==
  [o \in UserIds |->
     CASE o = "o1" -> NewUser("f1", "e1", TRUE)
       [] o = "o2" -> [NewUser("f2", "e2", FALSE) EXCEPT
                         !.following = <<"o3">>, !.interests = Tags]
       [] o = "o3" -> [NewUser("f3", "e3", FALSE) EXCEPT !.followers = <<"o2">>]
       [] OTHER -> NoDoc]

----------------------------------------------------------------------------
(* Authorization headers and tokens.
   A header is absent or "<scheme>" followed by " "-separated words; a word
   is a token string: quoted or not, made of `parts` dot-separated pieces
   (0 for the empty string), issued by `kind`, with the payload sub/email. *)

NoHeader == [none |-> TRUE]

Tok(q, p, k, s, e) == [quoted |-> q, parts |-> p, kind |-> k, sub |-> s, email |-> e]

EmptyTok == Tok(FALSE, 0, "forged", Undefined, Undefined)
JwtTok(o, q) == Tok(q, 3, "jwt", o, Undefined)
FbTok(f, e, q) == Tok(q, 3, "firebase", f, e)

Tokens ==
  {EmptyTok, Tok(TRUE, 0, "forged", Undefined, Undefined)}
  \cup {Tok(FALSE, p, "forged", Undefined, Undefined) : p \in {1, 2, 3, 4}}
  \cup {Tok(FALSE, 3, "expired", Undefined, Undefined)}
  \cup {JwtTok(o, q) : o \in UserIds, q \in BOOLEAN}
  \cup UNION {{FbTok(f, OldEmail[f], q), FbTok(f, NewEmail[f], q)} :
                f \in Uids, q \in BOOLEAN}

Hdr(s, w) == [scheme |-> s, words |-> w]

Headers ==
  {NoHeader}
  \cup {Hdr(s, <<>>) : s \in {"Bearer", "Basic"}}
  \cup {Hdr(s, <<t>>) : s \in {"Bearer", "Basic"}, t \in Tokens}
  \cup {Hdr("Bearer", <<EmptyTok, JwtTok("o2", FALSE)>>),
        Hdr("Bearer", <<EmptyTok, FbTok("f2", "e2", FALSE)>>)}

(* What a well-behaved client sends: nothing, or its own current token. *)
FbHdr(f) == Hdr("Bearer", <<FbTok(f, OldEmail[f], FALSE)>>)
JwtHdr(o) == Hdr("Bearer", <<JwtTok(o, FALSE)>>)

----------------------------------------------------------------------------
(* Database lookups *)

(* A path parameter that is not a 24-digit hexadecimal string *)
MalformedIds == {"abc"}

(* express-validator isMongoId *)
isMongoId(id) == id \notin MalformedIds

(* Mongoose casts the argument of findById and findByIdAndDelete to an
   ObjectId; a string that is no ObjectId raises CastError *)
castObjectId(id) == id \in UserIds \cup SpotIds \cup PostIds

findById(coll, id) == IF id \in DOMAIN coll THEN coll[id] ELSE NoDoc

UserIdOfUid(U, uid) ==
  IF \E o \in UserIds : U[o] # NoDoc /\ U[o].uid = uid
  THEN CHOOSE o \in UserIds : U[o] # NoDoc /\ U[o].uid = uid
  ELSE Undefined

----------------------------------------------------------------------------
(* authMiddleware, both revisions.  The result is [status, user]: status 0
   stands for next(), any other status is the middleware's own answer. *)

NoReqUser == [uid |-> Undefined, userId |-> Undefined, email |-> Undefined,
              isAdmin |-> FALSE, id |-> Undefined]

Deny(code) == [status |-> code, user |-> NoReqUser]
Pass(u) == [status |-> 0, user |-> u]

startsWithBearer(h) == h # NoHeader /\ h.scheme = "Bearer" /\ Len(h.words) >= 1

(* authHeader.split(" ")[1] *)
splitToken(h) == h.words[1]

isFalsyToken(t) == ~t.quoted /\ t.parts = 0

(* token.replace(/^"|"$/g, "").trim() *)
cleanToken(t) == [t EXCEPT !.quoted = FALSE]

(* token.split(".").length: "".split(".") is [""] *)
tokenPartsLength(t) == IF t.parts = 0 THEN 1 ELSE t.parts

jwtVerify(t) == t.kind = "jwt"
verifyIdToken(t) == t.kind = "firebase"

(* A middleware that would trust the token without the lookup of the user *)
authMiddlewareJwt_noLookup(h, U) ==
  IF ~startsWithBearer(h) THEN Deny(401)
  ELSE IF isFalsyToken(splitToken(h)) THEN Deny(401)
  ELSE LET token == cleanToken(splitToken(h)) IN
    IF tokenPartsLength(token) # 3 THEN Deny(403)
    ELSE IF ~jwtVerify(token) THEN Deny(403)
    ELSE Pass([uid |-> Undefined, userId |-> token.sub, email |-> Undefined,
               isAdmin |-> FALSE, id |-> Undefined])

authMiddlewareJwt(h, U) ==
  IF ~startsWithBearer(h) THEN Deny(401)
  ELSE IF isFalsyToken(splitToken(h)) THEN Deny(401)
  ELSE LET token == cleanToken(splitToken(h)) IN
    IF tokenPartsLength(token) # 3 THEN Deny(403)
    ELSE IF ~jwtVerify(token) THEN Deny(403)
    ELSE LET user == findById(U, token.sub) IN
      IF user = NoDoc THEN Deny(404)
      ELSE Pass([uid |-> Undefined, userId |-> token.sub, email |-> Undefined,
                 isAdmin |-> user.isAdmin, id |-> Undefined])

authMiddlewareFirebase(h, U) ==
  IF ~startsWithBearer(h) THEN Deny(401)
  ELSE IF isFalsyToken(splitToken(h)) THEN Deny(401)
  ELSE LET token == cleanToken(splitToken(h)) IN
    IF tokenPartsLength(token) # 3 THEN Deny(403)
    ELSE IF ~verifyIdToken(token) THEN Deny(403)
    ELSE LET o == UserIdOfUid(U, token.sub) IN
      IF o = Undefined THEN Deny(404)
      ELSE Pass([uid |-> token.sub, userId |-> Undefined, email |-> token.email,
                 isAdmin |-> U[o].isAdmin, id |-> Undefined])

adminMiddleware(u) == u.isAdmin

----------------------------------------------------------------------------
(* Spot documents (models/Spot.js) *)

Min(a, b) == IF a < b THEN a ELSE b

RECURSIVE SumRatings(_)
SumRatings(cs) == IF cs = <<>> THEN 0 ELSE Head(cs).rating + SumRatings(Tail(cs))

(* SpotSchema.pre("save"): the mean of the ratings with one decimal, kept
   here in tenths; 0 without comments. *)
averageRating(cs) ==
  IF Len(cs) > 0 THEN (20 * SumRatings(cs) + Len(cs)) \div (2 * Len(cs)) ELSE 0

NewSpot(name, owner, nfiles, tags) ==
  [status |-> "pending", submittedBy |-> owner, views |-> 0, likedBy |-> <<>>,
   comments |-> <<>>, reports |-> <<>>, photos |-> nfiles, name |-> name,
   averageRating |-> 0, tags |-> tags]

includes(seq, x) == \E i \in 1..Len(seq) : seq[i] = x
without(seq, x) == SelectSeq(seq, LAMBDA y : y # x)

(* A handler's outcome: the response and the Spot collection it leaves. *)
Res(code, out, S) == [status |-> code, out |-> out, spots |-> S]

----------------------------------------------------------------------------
(* routes/spotsRoute.js: the writes.  u is req.user as authMiddleware
   (Firebase revision) left it. *)

(* A submission that would take the status from the request body *)
routeSubmitSpot_statusFromBody(u, body, nfiles, newId, S, U) ==
  LET o == UserIdOfUid(U, u.uid) IN
  IF o = Undefined THEN Res(404, <<>>, S)
  ELSE Res(201, <<newId>>,
           [S EXCEPT ![newId] = [NewSpot(body.name, o, nfiles, body.tags) EXCEPT
              !.status = IF body.status # Undefined THEN body.status ELSE @]])

(* POST /api/spots; body.status stands for any field of the body the
   handler does not read. *)
routeSubmitSpot(u, body, nfiles, newId, S, U) ==
  LET o == UserIdOfUid(U, u.uid) IN
  IF o = Undefined THEN Res(404, <<>>, S)
  ELSE Res(201, <<newId>>, [S EXCEPT ![newId] = NewSpot(body.name, o, nfiles, body.tags)])

(* PUT /api/spots/:id *)
routeUpdateSpot(u, id, body, S) ==
  LET spot == findById(S, id) IN
  IF spot = NoDoc THEN Res(404, <<>>, S)
  ELSE IF spot.submittedBy # u.uid THEN Res(403, <<>>, S)
  ELSE Res(200, <<id>>,
           [S EXCEPT ![id].name = IF body.name # Undefined THEN body.name ELSE @,
                     ![id].tags = IF body.tags # {} THEN body.tags ELSE @])

(* PATCH /api/spots/:id/status, behind adminMiddleware *)
routePatchStatus(id, status, S) ==
  LET spot == findById(S, id) IN
  IF spot = NoDoc THEN Res(404, <<>>, S)
  ELSE Res(200, <<id>>, [S EXCEPT ![id].status = status])

(* DELETE /api/spots/:id *)
routeDeleteSpot(u, id, S) ==
  LET spot == findById(S, id) IN
  IF spot = NoDoc THEN Res(404, <<>>, S)
  ELSE IF spot.submittedBy # u.uid /\ ~u.isAdmin THEN Res(403, <<>>, S)
  ELSE Res(200, <<>>, [S EXCEPT ![id] = NoDoc])

(* POST /api/spots/:id/images *)
routeAddImages(u, id, nfiles, S) ==
  LET spot == findById(S, id) IN
  IF spot = NoDoc THEN Res(404, <<>>, S)
  ELSE IF spot.submittedBy # u.uid THEN Res(403, <<>>, S)
  ELSE Res(200, <<id>>, [S EXCEPT ![id].photos = @ + nfiles])

(* POST /api/spots/:id/reviews *)
routeAddReview(u, id, rating, S, U) ==
  LET spot == findById(S, id)
      o == UserIdOfUid(U, u.uid)
  IN
  IF spot = NoDoc THEN Res(404, <<>>, S)
  ELSE IF o = Undefined THEN Res(404, <<>>, S)
  ELSE LET cs == Append(spot.comments, [user |-> o, rating |-> rating]) IN
    Res(200, <<id>>, [S EXCEPT ![id].comments = cs,
                               ![id].averageRating = averageRating(cs)])

(* POST /api/spots/:id/like *)
routeLikeSpot(u, id, S) ==
  LET spot == findById(S, id) IN
  IF spot = NoDoc THEN Res(404, <<>>, S)
  ELSE IF includes(spot.likedBy, u.uid) THEN Res(400, <<>>, S)
  ELSE Res(200, <<id>>, [S EXCEPT ![id].likedBy = Append(@, u.uid)])

(* POST /api/spots/:id/unlike *)
routeUnlikeSpot(u, id, S) ==
  LET spot == findById(S, id) IN
  IF spot = NoDoc THEN Res(404, <<>>, S)
  ELSE IF ~includes(spot.likedBy, u.uid) THEN Res(400, <<>>, S)
  ELSE Res(200, <<id>>, [S EXCEPT ![id].likedBy = without(@, u.uid)])

(* POST /api/spots/:id/report *)
routeReportSpot(u, id, S, U) ==
  LET spot == findById(S, id)
      o == UserIdOfUid(U, u.uid)
  IN
  IF spot = NoDoc THEN Res(404, <<>>, S)
  ELSE IF o = Undefined THEN Res(404, <<>>, S)
  ELSE Res(200, <<id>>, [S EXCEPT ![id].reports = Append(@, o)])

(* req.io.to(room).emit(event): the events a handler emits, as a set of
   [room, event]; the room is spot.submittedBy.toString() *)
Emit(room, event) == [room |-> room, event |-> event]

(* like and review: the submitter is looked up with
   User.findOne({uid: spot.submittedBy.toString()}) and the event goes out
   only if that user is found with notificationsEnabled *)
engagementEmits(u, spot, event, U) ==
  IF spot.submittedBy # u.uid
  THEN LET o == UserIdOfUid(U, spot.submittedBy) IN
       IF o # Undefined /\ U[o].notificationsEnabled
       THEN {Emit(spot.submittedBy, event)} ELSE {}
  ELSE {}

(* status change: no lookup, no event for "pending" *)
statusEmits(spot, status) ==
  IF status # "pending" THEN {Emit(spot.submittedBy, "spotStatusUpdated")} ELSE {}

(* The response of a handler together with the events of its success *)
WithEmits(r, emits) ==
  [status |-> r.status, out |-> r.out, spots |-> r.spots,
   emits |-> IF r.status = 200 THEN emits ELSE {}]

(* GET /api/spots/:id: no authMiddleware on this route *)
routeGetSpot(id, S) ==
  LET spot == findById(S, id) IN
  IF spot = NoDoc THEN Res(404, <<>>, S)
  ELSE Res(200, <<id>>, [S EXCEPT ![id].views = @ + 1])

----------------------------------------------------------------------------
(* controller/spotController.js.  u is req.user as authMiddleware (JWT
   revision) left it, so findById(req.user.userId) finds the caller. *)

submitSpot(u, body, nfiles, newId, S, U) ==
  LET user == findById(U, u.userId) IN
  IF user = NoDoc THEN Res(404, <<>>, S)
  ELSE Res(201, <<newId>>, [S EXCEPT ![newId] = NewSpot(body.name, u.userId, nfiles, body.tags)])

fetchSpot(u, id, S) ==
  LET spot == findById(S, id) IN
  IF spot = NoDoc THEN Res(404, <<>>, S)
  ELSE IF spot.status # "approved" /\ ~u.isAdmin THEN Res(403, <<>>, S)
  ELSE Res(200, <<id>>, [S EXCEPT ![id].views = @ + 1])

deleteSpot(u, id, S) ==
  LET spot == findById(S, id) IN
  IF spot = NoDoc THEN Res(404, <<>>, S)
  ELSE IF spot.submittedBy # u.userId /\ ~u.isAdmin THEN Res(403, <<>>, S)
  ELSE Res(200, <<>>, [S EXCEPT ![id] = NoDoc])

(* An update that would keep what Object.assign took from the body *)
updateSpot_noReset(u, id, body, S) ==
  LET spot == findById(S, id) IN
  IF spot = NoDoc THEN Res(404, <<>>, S)
  ELSE IF spot.submittedBy # u.userId /\ ~u.isAdmin THEN Res(403, <<>>, S)
  ELSE Res(200, <<id>>,
           [S EXCEPT ![id] = [spot EXCEPT
              !.name = IF body.name # Undefined THEN body.name ELSE @,
              !.tags = IF body.tags # {} THEN body.tags ELSE @,
              !.status = IF body.status # Undefined THEN body.status ELSE @]])

(* Object.assign(spot, req.body), then spot.status = "pending" *)
updateSpot(u, id, body, S) ==
  LET spot == findById(S, id) IN
  IF spot = NoDoc THEN Res(404, <<>>, S)
  ELSE IF spot.submittedBy # u.userId /\ ~u.isAdmin THEN Res(403, <<>>, S)
  ELSE LET assigned == [spot EXCEPT
                          !.name = IF body.name # Undefined THEN body.name ELSE @,
                          !.tags = IF body.tags # {} THEN body.tags ELSE @,
                          !.status = IF body.status # Undefined THEN body.status ELSE @,
                          !.averageRating = IF "averageRating" \in DOMAIN body
                                            THEN body.averageRating ELSE @]
       IN (* comments is not modified, so pre("save") keeps the assigned
             averageRating; the schema's min 0 and max 5 are validated *)
          IF assigned.averageRating \notin 0..50 THEN Res(500, <<>>, S)
          ELSE Res(200, <<id>>, [S EXCEPT ![id] = [assigned EXCEPT !.status = "pending"]])

likeSpot(u, id, S) ==
  LET spot == findById(S, id) IN
  IF spot = NoDoc THEN Res(404, <<>>, S)
  ELSE IF spot.status # "approved" THEN Res(403, <<>>, S)
  ELSE IF includes(spot.likedBy, u.userId) THEN Res(400, <<>>, S)
  ELSE Res(200, <<id>>, [S EXCEPT ![id].likedBy = Append(@, u.userId)])

unlikeSpot(u, id, S) ==
  LET spot == findById(S, id) IN
  IF spot = NoDoc THEN Res(404, <<>>, S)
  ELSE IF spot.status # "approved" THEN Res(403, <<>>, S)
  ELSE IF ~includes(spot.likedBy, u.userId) THEN Res(400, <<>>, S)
  ELSE Res(200, <<id>>, [S EXCEPT ![id].likedBy = without(@, u.userId)])

(* rating 0 stands for a missing rating; a rating outside 1..5 fails the
   schema validation of spot.save() and reaches the global handler *)
addComment(u, id, rating, S, U) ==
  LET spot == findById(S, id) IN
  IF spot = NoDoc THEN Res(404, <<>>, S)
  ELSE IF spot.status # "approved" THEN Res(403, <<>>, S)
  ELSE IF findById(U, u.userId) = NoDoc THEN Res(404, <<>>, S)
  ELSE IF rating = 0 THEN Res(400, <<>>, S)
  ELSE IF rating < 1 \/ rating > 5 THEN Res(500, <<>>, S)
  ELSE LET cs == Append(spot.comments, [user |-> u.userId, rating |-> rating]) IN
    Res(200, <<id>>, [S EXCEPT ![id].comments = cs,
                               ![id].averageRating = averageRating(cs)])

reportSpot(u, id, S) ==
  LET spot == findById(S, id) IN
  IF spot = NoDoc THEN Res(404, <<>>, S)
  ELSE IF spot.status # "approved" THEN Res(403, <<>>, S)
  ELSE IF includes(spot.reports, u.userId) THEN Res(400, <<>>, S)
  ELSE Res(200, <<id>>, [S EXCEPT ![id].reports = Append(@, u.userId)])

(* $size of $setIntersection of the tags and the interests *)
interestScore(s, interests, S) == Cardinality(S[s].tags \cap interests)

(* $sort {interestScore: -1, createdAt: -1}; the later id stands for the
   later createdAt *)
feedBefore(a, b, interests, S) ==
  \/ interestScore(a, interests, S) > interestScore(b, interests, S)
  \/ /\ interestScore(a, interests, S) = interestScore(b, interests, S)
     /\ (CHOOSE i \in 1..Len(SpotOrder) : SpotOrder[i] = a)
          > (CHOOSE i \in 1..Len(SpotOrder) : SpotOrder[i] = b)

feedSort(set, interests, S) ==
  CHOOSE q \in [1..Cardinality(set) -> set] :
    \A i, j \in 1..Cardinality(set) : i < j => feedBefore(q[i], q[j], interests, S)

(* fetchFeed: $match of the approved spots of the followed users and of the
   caller, $addFields, $sort, $skip, $limit, then $lookup and $unwind of the
   submitter *)
fetchFeed(u, page, limit, S, U) ==
  LET user == findById(U, u.userId) IN
  IF user = NoDoc THEN Res(404, <<>>, S)
  ELSE LET userIds == {user.following[i] : i \in 1..Len(user.following)} \cup {u.userId}
           matched == {s \in SpotIds : /\ S[s] # NoDoc
                                       /\ S[s].submittedBy \in userIds
                                       /\ S[s].status = "approved"}
           sorted == feedSort(matched, user.interests, S)
           paged == SubSeq(sorted, (page - 1) * limit + 1,
                           IF page * limit < Len(sorted) THEN page * limit ELSE Len(sorted))
       IN Res(200, SelectSeq(paged, LAMBDA s : findById(U, S[s].submittedBy) # NoDoc), S)

----------------------------------------------------------------------------
(* routes/spotsRoute.js: the listings.  `match` is the set of spots that
   satisfy the part of the query that reads fields the model does not keep
   (tags against interests, $geoWithin/$near, the search regex); any set is
   possible.  The result is the list of the spots returned. *)

SeqOf(set) == SelectSeq(SpotOrder, LAMBDA s : s \in set)

(* A query without the status filter *)
approved_anyStatus(S) == {s \in SpotIds : S[s] # NoDoc}

approved(S) == {s \in SpotIds : S[s] # NoDoc /\ S[s].status = "approved"}

(* .skip((page - 1) * limit).limit(limit) *)
skipLimit(seq, page, limit) ==
  SubSeq(seq, (page - 1) * limit + 1, Min(page * limit, Len(seq)))

(* paginationValidation: isInt({min: 1}), isInt({min: 1, max: 100}) *)
paginationValid(page, limit) == page >= 1 /\ limit >= 1 /\ limit <= 100

(* GET /api/spots *)
routeListSpots(page, limit, S) ==
  Res(200, skipLimit(SeqOf(approved(S)), page, limit), S)

(* tags: {$in: user.interests} *)
interestMatch(uid, S, U) ==
  LET o == UserIdOfUid(U, uid) IN
  IF o = Undefined THEN {}
  ELSE {s \in SpotIds : S[s] # NoDoc /\ S[s].tags \cap U[o].interests # {}}

(* GET /api/spots/feed; match is the set of the spots with a tag among the
   interests of the caller *)
routeFeed(u, match, page, limit, S, U) ==
  IF UserIdOfUid(U, u.uid) = Undefined THEN Res(404, <<>>, S)
  ELSE Res(200, skipLimit(SeqOf(match \cap approved(S)), page, limit), S)

(* GET /api/spots/recommend *)
routeRecommend(u, match, page, limit, S, U) ==
  IF UserIdOfUid(U, u.uid) = Undefined THEN Res(404, <<>>, S)
  ELSE Res(200, skipLimit(SeqOf({s \in match \cap approved(S) :
                                   ~includes(S[s].likedBy, u.uid)}), page, limit), S)

SpotIndex(s) == CHOOSE i \in 1..Len(SpotOrder) : SpotOrder[i] = s

(* $sort {likeCount: -1, commentCount: -1, createdAt: -1}; the later id
   stands for the later createdAt *)
trendsBefore(a, b, S) ==
  \/ Len(S[a].likedBy) > Len(S[b].likedBy)
  \/ /\ Len(S[a].likedBy) = Len(S[b].likedBy)
     /\ \/ Len(S[a].comments) > Len(S[b].comments)
        \/ /\ Len(S[a].comments) = Len(S[b].comments)
           /\ SpotIndex(a) > SpotIndex(b)

trendingSort(set, S) ==
  CHOOSE q \in [1..Cardinality(set) -> set] :
    \A i, j \in 1..Cardinality(set) : i < j => trendsBefore(q[i], q[j], S)

(* GET /api/spots/trending: $match, $sort, $skip, $limit, then $lookup and
   $unwind of the submitter, which drops a spot whose submitter is gone *)
routeTrending(page, limit, S, U) ==
  LET paged == skipLimit(trendingSort(approved(S), S), page, limit) IN
  Res(200, SelectSeq(paged, LAMBDA s : findById(U, S[s].submittedBy) # NoDoc), S)

(* GET /api/spots/nearby, /search, /tags/:tag: find({..., status: "approved"}) *)
routeFiltered(match, page, limit, S) ==
  Res(200, skipLimit(SeqOf(match \cap approved(S)), page, limit), S)

(* GET /api/spots/search/suggestions: .limit(10), names and tags of the
   spots found *)
routeSuggestions(match, S) ==
  Res(200, skipLimit(SeqOf(match \cap approved(S)), 1, 10), S)

(* GET /api/spots/:id/nearby: .limit(5) *)
routeNearbyOfSpot(id, match, S) ==
  IF findById(S, id) = NoDoc THEN Res(404, <<>>, S)
  ELSE Res(200, skipLimit(SeqOf((match \ {id}) \cap approved(S)), 1, 5), S)

(* GET /api/spots/admin/analytics.  After the count of the approved spots
   the handler evaluates console.error("...", error) inside the try block,
   where the identifier `error` is bound only in the catch clause, and then
   Post.countDocuments() with no Post imported by the module: the
   ReferenceError goes to next(error) and the global handler. *)
errorBoundInTry == FALSE

routeSpotsAdminAnalytics(u, S) ==
  IF ~u.isAdmin THEN Res(403, <<>>, S)
  ELSE IF ~errorBoundInTry THEN Res(500, <<>>, S)
  ELSE Res(200, <<"totalSpots", "totalPosts", "popularCategories", "popularSpots">>, S)

----------------------------------------------------------------------------
(* Requests.  `last` is the latest request and its response. *)

(* req.body.refreshToken when the body has none *)
NoRefreshToken == [none |-> TRUE]

Reply(op, h, u, arg, r) ==
  [op |-> op, hdr |-> h, user |-> u, arg |-> arg, status |-> r.status, out |-> r.out,
   page |-> IF "page" \in DOMAIN r THEN r.page ELSE 0,
   limit |-> IF "limit" \in DOMAIN r THEN r.limit ELSE 0,
   emits |-> IF "emits" \in DOMAIN r THEN r.emits ELSE {},
   tok |-> IF "tok" \in DOMAIN r THEN r.tok ELSE NoRefreshToken,
   pw |-> IF "pw" \in DOMAIN r THEN r.pw ELSE FALSE,
   again |-> IF "again" \in DOMAIN r THEN r.again ELSE FALSE]

Bounded(S) ==
  \A s \in SpotIds : S[s] # NoDoc =>
    /\ S[s].views <= MaxViews
    /\ Len(S[s].likedBy) <= MaxLikes
    /\ Len(S[s].comments) <= MaxComments
    /\ Len(S[s].reports) <= MaxReports
    /\ S[s].photos <= MaxPhotos

(* A route behind authMiddleware: the middleware's answer, or the rest of
   the chain. *)
Guarded(a, r) == IF a.status # 0 THEN Res(a.status, <<>>, spots) ELSE r

SpotRequest(op, h, u, arg, r) ==
  /\ Bounded(r.spots)
  /\ spots' = r.spots
  /\ last' = Reply(op, h, u, arg, r)
  /\ UNCHANGED <<users, posts, rooms, pending, now, issued>>

(* A request body; tags {} stands for a body without tags *)
Bodies == [name : Names \cup {Undefined}, status : {Undefined, "approved"}, tags : {{}}]

SubmitSpotRoute(h, body, nfiles, newId) ==
  /\ spots[newId] = NoDoc
  /\ LET a == authMiddlewareFirebase(h, users) IN
     SpotRequest("routeSubmitSpot", h, a.user, newId,
       Guarded(a, IF body.name = Undefined THEN Res(400, <<>>, spots)
                  ELSE routeSubmitSpot(a.user, body, nfiles, newId, spots, users)))

UpdateSpotRoute(h, id, body) ==
  LET a == authMiddlewareFirebase(h, users) IN
  SpotRequest("routeUpdateSpot", h, a.user, id,
    Guarded(a, routeUpdateSpot(a.user, id, body, spots)))

PatchSpotStatus(h, id, status) ==
  LET a == authMiddlewareFirebase(h, users) IN
  SpotRequest("routePatchStatus", h, a.user, id,
    Guarded(a, IF ~adminMiddleware(a.user) THEN Res(403, <<>>, spots)
               ELSE IF status \notin Statuses THEN Res(400, <<>>, spots)
               ELSE WithEmits(routePatchStatus(id, status, spots),
                              IF findById(spots, id) = NoDoc THEN {}
                              ELSE statusEmits(spots[id], status))))

DeleteSpotRoute(h, id) ==
  LET a == authMiddlewareFirebase(h, users) IN
  SpotRequest("routeDeleteSpot", h, a.user, id,
    Guarded(a, routeDeleteSpot(a.user, id, spots)))

AddImagesRoute(h, id, nfiles) ==
  LET a == authMiddlewareFirebase(h, users) IN
  SpotRequest("routeAddImages", h, a.user, id,
    Guarded(a, routeAddImages(a.user, id, nfiles, spots)))

AddReviewRoute(h, id, rating) ==
  LET a == authMiddlewareFirebase(h, users) IN
  SpotRequest("routeAddReview", h, a.user, id,
    Guarded(a, IF rating < 1 \/ rating > 5 THEN Res(400, <<>>, spots)
               ELSE WithEmits(routeAddReview(a.user, id, rating, spots, users),
                              IF findById(spots, id) = NoDoc THEN {}
                              ELSE engagementEmits(a.user, spots[id], "newComment", users))))

LikeSpotRoute(h, id) ==
  LET a == authMiddlewareFirebase(h, users) IN
  SpotRequest("routeLikeSpot", h, a.user, id,
    Guarded(a, WithEmits(routeLikeSpot(a.user, id, spots),
                         IF findById(spots, id) = NoDoc THEN {}
                         ELSE engagementEmits(a.user, spots[id], "newLike", users))))

UnlikeSpotRoute(h, id) ==
  LET a == authMiddlewareFirebase(h, users) IN
  SpotRequest("routeUnlikeSpot", h, a.user, id,
    Guarded(a, routeUnlikeSpot(a.user, id, spots)))

ReportSpotRoute(h, id) ==
  LET a == authMiddlewareFirebase(h, users) IN
  SpotRequest("routeReportSpot", h, a.user, id,
    Guarded(a, routeReportSpot(a.user, id, spots, users)))

GetSpotRoute(h, id) ==
  SpotRequest("routeGetSpot", h, NoReqUser, id,
    IF ~isMongoId(id) THEN Res(400, <<>>, spots) ELSE routeGetSpot(id, spots))

SubmitSpotCtl(h, body, nfiles, newId) ==
  /\ spots[newId] = NoDoc
  /\ body.name # Undefined
  /\ LET a == authMiddlewareJwt(h, users) IN
     SpotRequest("submitSpot", h, a.user, newId,
       Guarded(a, submitSpot(a.user, body, nfiles, newId, spots, users)))

UpdateSpotCtl(h, id, body) ==
  LET a == authMiddlewareJwt(h, users) IN
  SpotRequest("updateSpot", h, a.user, id, Guarded(a, updateSpot(a.user, id, body, spots)))

DeleteSpotCtl(h, id) ==
  LET a == authMiddlewareJwt(h, users) IN
  SpotRequest("deleteSpot", h, a.user, id, Guarded(a, deleteSpot(a.user, id, spots)))

FetchSpotCtl(h, id) ==
  LET a == authMiddlewareJwt(h, users) IN
  SpotRequest("fetchSpot", h, a.user, id, Guarded(a, fetchSpot(a.user, id, spots)))

LikeSpotCtl(h, id) ==
  LET a == authMiddlewareJwt(h, users) IN
  SpotRequest("likeSpot", h, a.user, id, Guarded(a, likeSpot(a.user, id, spots)))

UnlikeSpotCtl(h, id) ==
  LET a == authMiddlewareJwt(h, users) IN
  SpotRequest("unlikeSpot", h, a.user, id, Guarded(a, unlikeSpot(a.user, id, spots)))

AddCommentCtl(h, id, rating) ==
  LET a == authMiddlewareJwt(h, users) IN
  SpotRequest("addComment", h, a.user, id,
    Guarded(a, addComment(a.user, id, rating, spots, users)))

ReportSpotCtl(h, id) ==
  LET a == authMiddlewareJwt(h, users) IN
  SpotRequest("reportSpot", h, a.user, id, Guarded(a, reportSpot(a.user, id, spots)))

(* The paginated handlers: the validation, then the handler; the page and
   the limit of a request that passed the validation are kept with the
   response *)
Paged(page, limit, r) ==
  IF ~paginationValid(page, limit) THEN Res(400, <<>>, spots)
  ELSE [status |-> r.status, out |-> r.out, spots |-> r.spots,
        page |-> page, limit |-> limit]

ListSpots(page, limit) ==
  SpotRequest("routeListSpots", NoHeader, NoReqUser, Undefined,
    Paged(page, limit, routeListSpots(page, limit, spots)))

Feed(h, page, limit) ==
  LET a == authMiddlewareFirebase(h, users) IN
  SpotRequest("routeFeed", h, a.user, Undefined,
    Guarded(a, Paged(page, limit, routeFeed(a.user, interestMatch(a.user.uid, spots, users),
                                               page, limit, spots, users))))

Recommend(h, page, limit) ==
  LET a == authMiddlewareFirebase(h, users) IN
  SpotRequest("routeRecommend", h, a.user, Undefined,
    Guarded(a, Paged(page, limit, routeRecommend(a.user, interestMatch(a.user.uid, spots, users),
                                                    page, limit, spots, users))))

Trending(page, limit) ==
  SpotRequest("routeTrending", NoHeader, NoReqUser, Undefined,
    Paged(page, limit, routeTrending(page, limit, spots, users)))

(* op is one of routeNearby, routeSearch, routeByTag *)
Filtered(op, match, page, limit) ==
  SpotRequest(op, NoHeader, NoReqUser, Undefined,
    Paged(page, limit, routeFiltered(match, page, limit, spots)))

Suggestions(match) ==
  SpotRequest("routeSuggestions", NoHeader, NoReqUser, Undefined,
    routeSuggestions(match, spots))

NearbyOfSpot(id, match) ==
  SpotRequest("routeNearbyOfSpot", NoHeader, NoReqUser, id,
    routeNearbyOfSpot(id, match, spots))

(* fetchFeed reads page and limit with parseInt(...) || default and has no
   validation of its own *)
FetchFeedCtl(h, page, limit) ==
  LET a == authMiddlewareJwt(h, users) IN
  SpotRequest("fetchFeed", h, a.user, Undefined,
    Guarded(a, [status |-> fetchFeed(a.user, page, limit, spots, users).status,
                out |-> fetchFeed(a.user, page, limit, spots, users).out,
                spots |-> spots, page |-> page, limit |-> limit]))

SpotsAdminAnalytics(h) ==
  LET a == authMiddlewareFirebase(h, users) IN
  SpotRequest("routeSpotsAdminAnalytics", h, a.user, Undefined,
    Guarded(a, routeSpotsAdminAnalytics(a.user, spots)))

----------------------------------------------------------------------------
(* The moderation workflow of the spots: submission, update, status change,
   deletion, and every read of the spots router. *)

(* The requests that are between two of their awaits; pending[r] is what
   the handler of request r holds in its local variables *)
ReqIds == {"r1", "r2"}
Idle == [pc |-> "idle"]

NoRequest == [op |-> "none", hdr |-> NoHeader, user |-> NoReqUser, arg |-> Undefined,
              status |-> 0, out |-> <<>>, page |-> 0, limit |-> 0, emits |-> {},
              tok |-> NoRefreshToken, pw |-> FALSE, again |-> FALSE]

Init ==
  /\ users = InitUsers
  /\ spots = [s \in SpotIds |-> NoDoc]
  /\ posts = [p \in PostIds |-> NoDoc]
  /\ rooms = {}
  /\ pending = [r \in ReqIds |-> Idle]
  /\ now = 0
  /\ issued = {}
  /\ last = NoRequest

(* Callers of the moderation workflow: nobody, the admin, a user *)
(* the user who deletes the own account *)
Leavers == {FbHdr("f2")}
(* the administrator *)
Moderators == {FbHdr("f1")}
(* the two tokens of user o2, one of each revision *)
SubmitterHdrs == {FbHdr("f2"), JwtHdr("o2")}
FbMods == {NoHeader, FbHdr("f1"), FbHdr("f2")}
JwtMods == {NoHeader, JwtHdr("o1"), JwtHdr("o2")}
ModBodies == [name : {"n1"}, status : {Undefined, "approved"}, tags : {{"Nature"}}]

(* page and limit of a listing request; the first three fail validation *)
Pagings == {<<0, 10>>, <<1, 0>>, <<1, 101>>, <<1, 1>>, <<2, 1>>, <<1, 10>>}

Next ==
  \/ \E h \in FbMods, b \in ModBodies, s \in SpotIds : SubmitSpotRoute(h, b, 0, s)
  \/ \E h \in JwtMods, b \in ModBodies, s \in SpotIds : SubmitSpotCtl(h, b, 0, s)
  \/ \E h \in FbMods, b \in ModBodies, s \in SpotIds : UpdateSpotRoute(h, s, b)
  \/ \E h \in JwtMods, b \in ModBodies, s \in SpotIds : UpdateSpotCtl(h, s, b)
  \/ \E h \in FbMods, s \in SpotIds, st \in Statuses \cup {"archived"} :
       PatchSpotStatus(h, s, st)
  \/ \E h \in FbMods, s \in SpotIds : DeleteSpotRoute(h, s)
  \/ \E h \in JwtMods, s \in SpotIds : DeleteSpotCtl(h, s)
  \/ \E h \in FbMods, s \in SpotIds : GetSpotRoute(h, s)
  \/ \E h \in JwtMods, s \in SpotIds : FetchSpotCtl(h, s)
  \/ \E pl \in Pagings : ListSpots(pl[1], pl[2])
  \/ \E h \in FbMods, pl \in Pagings : Feed(h, pl[1], pl[2])
  \/ \E h \in FbMods, pl \in Pagings : Recommend(h, pl[1], pl[2])
  \/ \E pl \in Pagings : Trending(pl[1], pl[2])
  \/ \E op \in {"routeNearby", "routeSearch", "routeByTag"},
        m \in SUBSET SpotIds, pl \in Pagings : Filtered(op, m, pl[1], pl[2])
  \/ \E m \in SUBSET SpotIds : Suggestions(m)
  \/ \E s \in SpotIds, m \in SUBSET SpotIds : NearbyOfSpot(s, m)
  \/ \E h \in FbMods : SpotsAdminAnalytics(h)

Spec == Init /\ [][Next]_vars

----------------------------------------------------------------------------
(* Every write to one spot: the moderation writes and the engagement of
   the users with the spot. *)

FbAll == {NoHeader, FbHdr("f1"), FbHdr("f2"), FbHdr("f3")}
JwtAll == {NoHeader, JwtHdr("o1"), JwtHdr("o2"), JwtHdr("o3")}
(* the users who submit, like, and review or report in this specification *)
FbSubmitters == {NoHeader, FbHdr("f2"), FbHdr("f3")}
JwtSubmitters == {NoHeader, JwtHdr("o2"), JwtHdr("o3")}
FbLikers == {NoHeader, FbHdr("f2"), FbHdr("f3")}
FbReviewers == {NoHeader, FbHdr("f3")}
JwtReviewers == {NoHeader, JwtHdr("o3")}
FocusSpots == {"s1"}

NextEngage ==
  \/ \E h \in FbSubmitters, b \in Bodies, n \in 0..MaxPhotos, s \in FocusSpots :
       SubmitSpotRoute(h, b, n, s)
  \/ \E h \in JwtSubmitters, b \in Bodies, n \in 0..MaxPhotos, s \in FocusSpots :
       SubmitSpotCtl(h, b, n, s)
  \/ \E h \in FbAll, b \in Bodies, s \in FocusSpots : UpdateSpotRoute(h, s, b)
  \/ \E h \in JwtAll, b \in Bodies, s \in FocusSpots : UpdateSpotCtl(h, s, b)
  \/ \E h \in FbAll, s \in FocusSpots, st \in Statuses : PatchSpotStatus(h, s, st)
  \/ \E h \in FbAll, s \in FocusSpots : DeleteSpotRoute(h, s)
  \/ \E h \in JwtAll, s \in FocusSpots : DeleteSpotCtl(h, s)
  \/ \E h \in FbAll, s \in FocusSpots, n \in 1..MaxPhotos : AddImagesRoute(h, s, n)
  \/ \E h \in FbReviewers, s \in FocusSpots, r \in {0, 4} : AddReviewRoute(h, s, r)
  \/ \E h \in FbLikers, s \in FocusSpots : LikeSpotRoute(h, s)
  \/ \E h \in FbLikers, s \in FocusSpots : UnlikeSpotRoute(h, s)
  \/ \E h \in FbReviewers, s \in FocusSpots : ReportSpotRoute(h, s)
  \/ \E h \in JwtReviewers, s \in FocusSpots, r \in {0, 4, 6} : AddCommentCtl(h, s, r)
  \/ \E h \in JwtReviewers, s \in FocusSpots : LikeSpotCtl(h, s)
  \/ \E h \in JwtReviewers, s \in FocusSpots : UnlikeSpotCtl(h, s)
  \/ \E h \in JwtReviewers, s \in FocusSpots : ReportSpotCtl(h, s)

SpecEngage == Init /\ [][NextEngage]_vars

----------------------------------------------------------------------------
(* The personalised feed: spots with tags, submitted by the followed user
   o3, by the follower o2 and by the admin o1, approved by the admin, and
   read through both feed handlers. *)

FeedBodies == [name : {"n1"}, status : {Undefined}, tags : SUBSET Tags]
FeedPagings == {<<1, 1>>, <<2, 1>>, <<1, 10>>}

NextFeed ==
  \/ \E h \in FbAll, b \in FeedBodies, s \in SpotIds : SubmitSpotRoute(h, b, 0, s)
  \/ \E h \in Moderators, s \in SpotIds, st \in {"approved", "rejected"} :
       PatchSpotStatus(h, s, st)
  \/ \E h \in FbAll, pl \in FeedPagings : Feed(h, pl[1], pl[2])
  \/ \E h \in JwtAll, pl \in FeedPagings : FetchFeedCtl(h, pl[1], pl[2])

SpecFeed == Init /\ [][NextFeed]_vars

----------------------------------------------------------------------------
(* The socket layer.  A socket is authenticated with a Firebase token and
   is known by socket.user.uid; rooms holds [uid, room] for every room a
   user's socket has joined. *)

Joined(uid, room) == [uid |-> uid, room |-> room]

SocketEvent(op, uid) == [NoRequest EXCEPT !.op = op, !.arg = uid]

(* socket.on("joinUser"): socket.join(socket.user.uid) *)
JoinUser(uid) ==
  /\ rooms' = rooms \cup {Joined(uid, uid)}
  /\ last' = SocketEvent("joinUser", uid)
  /\ UNCHANGED <<users, spots, posts, pending, now, issued>>

(* socket.on("leaveUser"): socket.leave(socket.user.uid) *)
LeaveUser(uid) ==
  /\ rooms' = rooms \ {Joined(uid, uid)}
  /\ last' = SocketEvent("leaveUser", uid)
  /\ UNCHANGED <<users, spots, posts, pending, now, issued>>

(* socket.on("joinSpot"): socket.join(spotId), the spotId of the message *)
JoinSpot(uid, spotId) ==
  /\ rooms' = rooms \cup {Joined(uid, spotId)}
  /\ last' = [SocketEvent("joinSpot", uid) EXCEPT !.out = <<spotId>>]
  /\ UNCHANGED <<users, spots, posts, pending, now, issued>>

(* socket.on("leaveSpot"): socket.leave(spotId) *)
LeaveSpot(uid, spotId) ==
  /\ rooms' = rooms \ {Joined(uid, spotId)}
  /\ last' = [SocketEvent("leaveSpot", uid) EXCEPT !.out = <<spotId>>]
  /\ UNCHANGED <<users, spots, posts, pending, now, issued>>

(* The users whose socket receives an event sent to the room *)
receivers(room) == {f \in Uids : Joined(f, room) \in rooms}

(* Notifications: user f2 submits, the admin decides, user f3 likes and
   reviews, and the sockets of f2 and f3 join and leave their rooms. *)
NextNotify ==
  \/ \E h \in Leavers, b \in ModBodies, s \in FocusSpots : SubmitSpotRoute(h, b, 0, s)
  \/ \E h \in FbAll, s \in FocusSpots, st \in Statuses : PatchSpotStatus(h, s, st)
  \/ \E h \in FbAll, s \in FocusSpots : LikeSpotRoute(h, s)
  \/ \E h \in FbAll, s \in FocusSpots : UnlikeSpotRoute(h, s)
  \/ \E h \in FbReviewers, s \in FocusSpots, r \in {0, 4} : AddReviewRoute(h, s, r)
  \/ \E f \in {"f2", "f3"} : JoinUser(f)
  \/ \E f \in {"f2", "f3"} : LeaveUser(f)

SpecNotify == Init /\ [][NextNotify]_vars

----------------------------------------------------------------------------
(* Accounts: routes/authRoutes.js and controller/authController.js (JWT
   revision), the auth router of the Firebase revision, and the analytics
   routes of routes/usersRoute.js.  A handler's outcome is the response and
   the User collection it leaves. *)

ARes(code, out, U) == [status |-> code, out |-> out, users |-> U]

emailTaken(U, email, self) ==
  \E o \in UserIds : o # self /\ U[o] # NoDoc /\ U[o].email = email

(* POST /api/auth/ensure-user (JWT revision): the token's payload is
   {userId}, so `email` is undefined: email.split throws in the creation
   branch, and user.save() fails the `required` validation of email in the
   update branch; both reach the global error handler. *)
ensureUserJwt(u, newId, U) ==
  LET user == findById(U, u.userId) IN
  IF user = NoDoc THEN
    IF u.email = Undefined \/ emailTaken(U, u.email, newId) THEN ARes(500, <<>>, U)
    ELSE ARes(200, <<newId>>,
              [U EXCEPT ![newId] = NewUser(Undefined, u.email, FALSE)])
  ELSE IF user.email # u.email THEN
    IF u.email = Undefined \/ emailTaken(U, u.email, u.userId) THEN ARes(500, <<>>, U)
    ELSE ARes(200, <<u.userId>>, [U EXCEPT ![u.userId].email = u.email])
  ELSE ARes(200, <<u.userId>>, U)

(* POST /api/auth/ensure-user (Firebase revision) *)
ensureUserFb(u, newId, U) ==
  LET o == UserIdOfUid(U, u.uid) IN
  IF o = Undefined THEN
    IF u.email = Undefined \/ emailTaken(U, u.email, newId) THEN ARes(500, <<>>, U)
    ELSE ARes(200, <<newId>>,
              [U EXCEPT ![newId] = NewUser(u.uid, u.email, FALSE)])
  ELSE IF U[o].email # u.email THEN
    IF u.email = Undefined \/ emailTaken(U, u.email, o) THEN ARes(500, <<>>, U)
    ELSE ARes(200, <<o>>, [U EXCEPT ![o].email = u.email])
  ELSE ARes(200, <<o>>, U)

(* GET /api/auth/status *)
authStatusJwt(u, U) ==
  IF findById(U, u.userId) = NoDoc THEN ARes(404, <<>>, U)
  ELSE ARes(200, <<u.userId>>, U)

authStatusFb(u, U) ==
  LET o == UserIdOfUid(U, u.uid) IN
  IF o = Undefined THEN ARes(404, <<>>, U) ELSE ARes(200, <<o>>, U)

(* A deleteUser that would always take the caller's id *)
deleteUser_ignoresParam(u, param, U) ==
  IF param # Undefined /\ ~u.isAdmin THEN ARes(403, <<>>, U)
  ELSE IF findById(U, u.userId) = NoDoc THEN ARes(404, <<>>, U)
  ELSE ARes(200, <<>>, [U EXCEPT ![u.userId] = NoDoc])

(* authController.deleteUser (JWT revision); param is req.params.userId *)
deleteUser(u, param, U) ==
  LET userId == IF param # Undefined THEN param ELSE u.userId IN
  IF param # Undefined /\ ~u.isAdmin THEN ARes(403, <<>>, U)
  ELSE IF ~castObjectId(userId) THEN ARes(500, <<>>, U)
  ELSE IF findById(U, userId) = NoDoc THEN ARes(404, <<>>, U)
  ELSE ARes(200, <<>>, [U EXCEPT ![userId] = NoDoc])

(* A deleteUser that would also take the user out of the lists of the
   others *)
deleteUserFb_cascade(u, param, fbOk, U) ==
  LET firebaseUid == IF param # Undefined THEN param ELSE u.uid
      o == UserIdOfUid(U, firebaseUid)
  IN
  IF param # Undefined /\ ~u.isAdmin THEN ARes(403, <<>>, U)
  ELSE IF ~fbOk THEN ARes(500, <<>>, U)
  ELSE IF o = Undefined THEN ARes(404, <<>>, U)
  ELSE ARes(200, <<>>,
            [p \in UserIds |->
               IF p = o \/ U[p] = NoDoc THEN NoDoc
               ELSE [U[p] EXCEPT !.followers = without(@, o),
                                 !.following = without(@, o)]])

(* deleteUser of the Firebase revision; param is req.params.uid.
   admin.auth().deleteUser throws when the identity provider has no such
   account (fbOk false), before the User collection is touched. *)
deleteUserFb(u, param, fbOk, U) ==
  LET firebaseUid == IF param # Undefined THEN param ELSE u.uid
      o == UserIdOfUid(U, firebaseUid)
  IN
  IF param # Undefined /\ ~u.isAdmin THEN ARes(403, <<>>, U)
  ELSE IF ~fbOk THEN ARes(500, <<>>, U)
  ELSE IF o = Undefined THEN ARes(404, <<>>, U)
  ELSE ARes(200, <<>>, [U EXCEPT ![o] = NoDoc])

(* The GET routes of routes/usersRoute.js in the order of registration *)
Lit(s) == [lit |-> s]
Par(s) == [param |-> s]
Route(segs, handler) == [segs |-> segs, handler |-> handler]

UsersGetRoutes ==
  << Route(<<Lit("profile")>>, "profile"),
     Route(<<Lit("nearby")>>, "nearby"),
     Route(<<Lit("popular")>>, "popular"),
     Route(<<Par("uid"), Lit("favorites")>>, "favorites"),
     Route(<<Par("userId"), Lit("followers")>>, "followers"),
     Route(<<Par("userId"), Lit("following")>>, "following"),
     Route(<<Par("uid")>>, "user"),
     Route(<<Par("uid"), Lit("interests")>>, "interests"),
     Route(<<Par("uid"), Lit("posts")>>, "posts"),
     Route(<<Par("uid"), Lit("settings")>>, "settings"),
     Route(<<Par("uid"), Lit("analytics")>>, "routeUserAnalytics"),
     Route(<<Lit("admin"), Lit("analytics")>>, "routeAdminAnalytics") >>

(* express matches a path against a route segment by segment *)
matchRoute(route, path) ==
  /\ Len(route.segs) = Len(path)
  /\ \A i \in 1..Len(path) :
       "param" \in DOMAIN route.segs[i] \/ route.segs[i].lit = path[i]

(* The first route registered that matches the path; 0 if none *)
dispatch(routes, path) ==
  IF \E i \in 1..Len(routes) : matchRoute(routes[i], path)
  THEN CHOOSE i \in 1..Len(routes) :
         /\ matchRoute(routes[i], path)
         /\ \A j \in 1..(i - 1) : ~matchRoute(routes[j], path)
  ELSE 0

(* GET /api/users/:uid/analytics: no check of req.user.isAdmin *)
routeUserAnalytics(uid, U) ==
  IF UserIdOfUid(U, uid) = Undefined THEN ARes(404, <<>>, U)
  ELSE ARes(200, <<"totalPosts", "totalLikes", "totalFollowers", "totalFollowing">>, U)

(* GET /api/users/admin/analytics *)
routeAdminAnalytics(u, U) ==
  IF ~u.isAdmin THEN ARes(403, <<>>, U)
  ELSE ARes(200, <<"totalUsers", "activeUsers">>, U)

GuardedA(a, r) == IF a.status # 0 THEN ARes(a.status, <<>>, users) ELSE r

AccountRequest(op, h, u, arg, r) ==
  /\ users' = r.users
  /\ last' = Reply(op, h, u, arg, r)
  /\ UNCHANGED <<spots, posts, rooms, pending, now, issued>>

EnsureUserJwt(h, newId) ==
  /\ users[newId] = NoDoc
  /\ LET a == authMiddlewareJwt(h, users) IN
     AccountRequest("ensureUserJwt", h, a.user, Undefined,
       GuardedA(a, ensureUserJwt(a.user, newId, users)))

EnsureUserFb(h, newId) ==
  /\ users[newId] = NoDoc
  /\ LET a == authMiddlewareFirebase(h, users) IN
     AccountRequest("ensureUserFb", h, a.user, Undefined,
       GuardedA(a, ensureUserFb(a.user, newId, users)))

AuthStatusJwt(h) ==
  LET a == authMiddlewareJwt(h, users) IN
  AccountRequest("authStatusJwt", h, a.user, Undefined, GuardedA(a, authStatusJwt(a.user, users)))

AuthStatusFb(h) ==
  LET a == authMiddlewareFirebase(h, users) IN
  AccountRequest("authStatusFb", h, a.user, Undefined, GuardedA(a, authStatusFb(a.user, users)))

(* DELETE /api/auth/delete *)
DeleteOwnAccount(h) ==
  LET a == authMiddlewareJwt(h, users) IN
  AccountRequest("deleteUser", h, a.user, Undefined,
    GuardedA(a, deleteUser(a.user, Undefined, users)))

(* DELETE /api/auth/delete/:userId, behind adminMiddleware *)
DeleteUserById(h, id) ==
  LET a == authMiddlewareJwt(h, users) IN
  AccountRequest("deleteUser", h, a.user, id,
    GuardedA(a, IF ~adminMiddleware(a.user) THEN ARes(403, <<>>, users)
                ELSE deleteUser(a.user, id, users)))

(* DELETE /api/auth/delete (Firebase revision) *)
DeleteOwnAccountFb(h, fbOk) ==
  LET a == authMiddlewareFirebase(h, users) IN
  AccountRequest("deleteUserFb", h, a.user, Undefined,
    GuardedA(a, deleteUserFb(a.user, Undefined, fbOk, users)))

(* DELETE /api/auth/delete/:uid (Firebase revision), behind adminMiddleware *)
DeleteUserByUid(h, uid, fbOk) ==
  LET a == authMiddlewareFirebase(h, users) IN
  AccountRequest("deleteUserFb", h, a.user, uid,
    GuardedA(a, IF ~adminMiddleware(a.user) THEN ARes(403, <<>>, users)
                ELSE deleteUserFb(a.user, uid, fbOk, users)))

(* GET /api/users/<path>, for the paths the analytics routes serve *)
UsersGet(h, path) ==
  LET i == dispatch(UsersGetRoutes, path) IN
  /\ i # 0
  /\ UsersGetRoutes[i].handler \in {"routeUserAnalytics", "routeAdminAnalytics"}
  /\ LET a == authMiddlewareFirebase(h, users) IN
     AccountRequest(UsersGetRoutes[i].handler, h, a.user, path[1],
       GuardedA(a, IF UsersGetRoutes[i].handler = "routeUserAnalytics"
                   THEN routeUserAnalytics(path[1], users)
                   ELSE routeAdminAnalytics(a.user, users)))

(* Tokens sent to ensure-user: the user's own token, with the e-mail on
   record or a new one, of users with and without a User document *)
EnsureFbHdrs ==
  {NoHeader} \cup {Hdr("Bearer", <<FbTok(f, e, FALSE)>>) :
                     f \in {"f2", "f4"}, e \in {"e2", "m2", "e4", Undefined}}
EnsureJwtHdrs == {NoHeader, JwtHdr("o2"), JwtHdr("o4")}
AnalyticsPaths == {<<x, "analytics">> : x \in {"admin", "f2", "f4"}}

NextAccount ==
  \/ \E h \in EnsureJwtHdrs, o \in UserIds : EnsureUserJwt(h, o)
  \/ \E h \in EnsureFbHdrs, o \in UserIds : EnsureUserFb(h, o)
  \/ \E h \in Headers : AuthStatusJwt(h)
  \/ \E h \in Headers : AuthStatusFb(h)
  \/ \E h \in JwtAll : DeleteOwnAccount(h)
  \/ \E h \in JwtAll, o \in {"o2", "o4"} : DeleteUserById(h, o)
  \/ \E h \in FbAll, ok \in BOOLEAN : DeleteOwnAccountFb(h, ok)
  \/ \E h \in FbAll, f \in {"f2", "f4"}, ok \in BOOLEAN : DeleteUserByUid(h, f, ok)
  \/ \E h \in Leavers, b \in ModBodies : SubmitSpotRoute(h, b, 0, "s1")
  \/ \E h \in FbAll, p \in AnalyticsPaths : UsersGet(h, p)

SpecAccount == Init /\ [][NextAccount]_vars

----------------------------------------------------------------------------
(* Community posts: routes/communityRoute.js, the community router with
   the /posts paths, and controller/communityController.js.  A handler's
   outcome is the response and the Post collection it leaves. *)

PRes(code, out, P) == [status |-> code, out |-> out, posts |-> P]

(* $addToSet *)
addToSet(seq, x) == IF includes(seq, x) THEN seq ELSE Append(seq, x)

(* POST /api/community (communityRoute.js) *)
routeCreatePost(u, newId, P, U) ==
  LET o == UserIdOfUid(U, u.uid) IN
  IF o = Undefined THEN PRes(404, <<>>, P)
  ELSE PRes(201, <<newId>>,
            [P EXCEPT ![newId] = [user |-> o, likes |-> <<>>, status |-> "approved"]])

(* POST /api/community/:postId/like (communityRoute.js) *)
routeLikePost(u, id, P) ==
  LET post == findById(P, id) IN
  IF post = NoDoc THEN PRes(404, <<>>, P)
  ELSE IF includes(post.likes, u.uid) THEN PRes(400, <<>>, P)
  ELSE PRes(200, Append(post.likes, u.uid), [P EXCEPT ![id].likes = Append(@, u.uid)])

(* DELETE /api/community/:postId/like (communityRoute.js) *)
routeUnlikePost(u, id, P) ==
  LET post == findById(P, id) IN
  IF post = NoDoc THEN PRes(404, <<>>, P)
  ELSE IF ~includes(post.likes, u.uid) THEN PRes(400, <<>>, P)
  ELSE PRes(200, without(post.likes, u.uid), [P EXCEPT ![id].likes = without(@, u.uid)])

(* hasLiked ? $pull : $addToSet, and the likes of the updated post *)
toggleLike(userId, id, P) ==
  LET post == findById(P, id) IN
  IF post = NoDoc THEN PRes(404, <<>>, P)
  ELSE LET likes == IF includes(post.likes, userId) THEN without(post.likes, userId)
                    ELSE addToSet(post.likes, userId)
       IN PRes(200, likes, [P EXCEPT ![id].likes = likes])

(* POST /api/community/posts/:postId/like: req.user._id.toString() throws
   when req.user has no _id, and the error reaches the global handler *)
routeTogglePostLike(u, id, P) ==
  IF u.id = Undefined THEN PRes(500, <<>>, P) ELSE toggleLike(u.id, id, P)

(* communityController.likePost *)
likePost(u, id, P) ==
  IF u.id = Undefined THEN PRes(401, <<>>, P) ELSE toggleLike(u.id, id, P)

GuardedP(a, r) == IF a.status # 0 THEN PRes(a.status, <<>>, posts) ELSE r

PostRequest(op, h, u, arg, r) ==
  /\ posts' = r.posts
  /\ last' = Reply(op, h, u, arg, r)
  /\ UNCHANGED <<users, spots, rooms, pending, now, issued>>

CreatePost(h, newId) ==
  /\ posts[newId] = NoDoc
  /\ LET a == authMiddlewareFirebase(h, users) IN
     PostRequest("routeCreatePost", h, a.user, newId,
       GuardedP(a, routeCreatePost(a.user, newId, posts, users)))

LikePostRoute(h, id) ==
  LET a == authMiddlewareFirebase(h, users) IN
  PostRequest("routeLikePost", h, a.user, id, GuardedP(a, routeLikePost(a.user, id, posts)))

UnlikePostRoute(h, id) ==
  LET a == authMiddlewareFirebase(h, users) IN
  PostRequest("routeUnlikePost", h, a.user, id, GuardedP(a, routeUnlikePost(a.user, id, posts)))

TogglePostLikeRoute(h, id) ==
  LET a == authMiddlewareFirebase(h, users) IN
  PostRequest("routeTogglePostLike", h, a.user, id,
    GuardedP(a, routeTogglePostLike(a.user, id, posts)))

LikePostCtl(h, id) ==
  LET a == authMiddlewareJwt(h, users) IN
  PostRequest("likePost", h, a.user, id, GuardedP(a, likePost(a.user, id, posts)))

NextCommunity ==
  \/ \E h \in FbSubmitters, p \in PostIds : CreatePost(h, p)
  \/ \E h \in FbAll, p \in PostIds : LikePostRoute(h, p)
  \/ \E h \in FbAll, p \in PostIds : UnlikePostRoute(h, p)
  \/ \E h \in FbAll, p \in PostIds : TogglePostLikeRoute(h, p)
  \/ \E h \in JwtAll, p \in PostIds : LikePostCtl(h, p)

SpecCommunity == Init /\ [][NextCommunity]_vars

----------------------------------------------------------------------------
(* Properties of the moderation workflow *)

(* C1: a spot becomes 'approved' only by the admin's PATCH
   /api/spots/:id/status on that spot; a submission always creates the spot
   as 'pending', and no other request (submit, update, like, unlike, review,
   report, image upload) makes a spot approved. *)
C1_ApprovedOnlyByAdminPatch ==
  [][\A s \in SpotIds :
       /\ (spots[s] = NoDoc /\ spots'[s] # NoDoc) => spots'[s].status = "pending"
       /\ (/\ spots'[s] # NoDoc
           /\ spots'[s].status = "approved"
           /\ (spots[s] = NoDoc \/ spots[s].status # "approved"))
          => /\ last'.op = "routePatchStatus"
             /\ last'.arg = s
             /\ last'.status = 200
             /\ last'.user.isAdmin]_vars

(* C1 witness: the admin's PATCH has just approved a spot *)
C1_Witness ==
  /\ last.op = "routePatchStatus"
  /\ last.status = 200
  /\ last.user.isAdmin
  /\ last.arg \in SpotIds
  /\ spots[last.arg] # NoDoc
  /\ spots[last.arg].status = "approved"

(* C2: every spot a listing endpoint returns (GET /api/spots, /feed,
   /recommend, /trending, /nearby, /search, /search/suggestions, /tags/:tag,
   /:id/nearby) is an approved spot. *)
C2_ListingsOnlyApproved ==
  last.op \in {"routeListSpots", "routeFeed", "routeRecommend", "routeTrending",
               "routeNearby", "routeSearch", "routeByTag", "routeSuggestions",
               "routeNearbyOfSpot"}
  => \A i \in 1..Len(last.out) :
       /\ last.out[i] \in SpotIds
       /\ spots[last.out[i]] # NoDoc
       /\ spots[last.out[i]].status = "approved"

(* C2 witness: a listing has returned a spot while another spot, not
   approved, was left out *)
C2_Witness ==
  /\ last.op \in {"routeListSpots", "routeFeed", "routeRecommend", "routeTrending",
                  "routeNearby", "routeSearch", "routeByTag", "routeSuggestions",
                  "routeNearbyOfSpot"}
  /\ last.status = 200
  /\ Len(last.out) = 1
  /\ \E s \in SpotIds : spots[s] # NoDoc /\ spots[s].status # "approved"

(* C3: a spot that is not approved is never returned to a caller who is not
   an admin: GET /api/spots/:id (the route and the controller's fetchSpot)
   answers 403 and leaves the view counter alone. *)
C3_NonApprovedHidden ==
  [][\A s \in SpotIds :
       (/\ last'.op \in {"routeGetSpot", "fetchSpot"}
        /\ last'.arg = s
        /\ last'.hdr \in SubmitterHdrs
        /\ spots[s] # NoDoc
        /\ spots[s].status # "approved")
       => /\ last'.status = 403
          /\ spots'[s] = spots[s]]_vars

(* C4 as stated: once a spot is approved or rejected no operation changes
   its status. *)
C4_DecidedStatusIsFinal ==
  [][\A s \in SpotIds :
       (/\ spots[s] # NoDoc
        /\ spots'[s] # NoDoc
        /\ spots[s].status \in {"approved", "rejected"})
       => spots'[s].status = spots[s].status]_vars

(* C4: the status of a spot changes only by the admin's PATCH
   /api/spots/:id/status on that spot, to any of pending, approved and
   rejected and from any of them, or by the controller's updateSpot called
   by the submitter or an admin, which sends the spot back to 'pending';
   no other operation changes it. *)
C4_StatusChangesOnlyByPatchOrUpdate ==
  [][\A s \in SpotIds :
       (/\ spots[s] # NoDoc
        /\ spots'[s] # NoDoc
        /\ spots'[s].status # spots[s].status)
       => /\ last'.arg = s
          /\ last'.status = 200
          /\ \/ /\ last'.op = "routePatchStatus"
                /\ last'.user.isAdmin
                /\ spots'[s].status \in Statuses
             \/ /\ last'.op = "updateSpot"
                /\ last'.user.isAdmin \/ last'.user.userId = spots[s].submittedBy
                /\ spots'[s].status = "pending"]_vars

(* C4 witness: updateSpot has sent back to 'pending' a spot that carries a
   like only an approved spot can receive *)
C4_Witness ==
  /\ last.op = "updateSpot"
  /\ last.status = 200
  /\ last.arg \in SpotIds
  /\ spots[last.arg] # NoDoc
  /\ spots[last.arg].status = "pending"
  /\ includes(spots[last.arg].likedBy, "o3")

(* C7: the submitter of a spot may update it (PUT), add images to it and
   delete it; any other caller who is not an admin gets 403 and the spot
   stays as it was. *)
C7_SubmitterManagesSpot ==
  [][\A s \in SpotIds :
       (/\ last'.op \in {"routeUpdateSpot", "routeAddImages", "routeDeleteSpot"}
        /\ last'.arg = s
        /\ last'.user.uid # Undefined
        /\ spots[s] # NoDoc
        /\ findById(users, spots[s].submittedBy) # NoDoc)
       => IF users[spots[s].submittedBy].uid = last'.user.uid
          THEN last'.status = 200
          ELSE ~last'.user.isAdmin => last'.status = 403 /\ spots'[s] = spots[s]]_vars

----------------------------------------------------------------------------
(* Properties of the accounts *)

(* C5: a handler behind authMiddleware runs only for a request with a valid
   Bearer token whose user has a User document; the middleware answers 401
   when the header is missing, is not a Bearer header or carries an empty
   token, 403 when the token does not have three parts or fails the
   verification, and 404 when the token verifies but no User document
   exists. *)
C5_AuthMiddlewareGate ==
  [][last'.op \in {"ensureUserJwt", "ensureUserFb", "authStatusJwt", "authStatusFb",
                   "deleteUser", "routeUserAnalytics", "routeAdminAnalytics"}
     => LET h == last'.hdr
            jwt == last'.op \in {"ensureUserJwt", "authStatusJwt", "deleteUser"}
        IN
        IF h = NoHeader \/ h.scheme # "Bearer" \/ h.words = <<>> \/ h.words[1] = EmptyTok
        THEN last'.status = 401 /\ last'.user = NoReqUser
        ELSE IF h.words[1].parts # 3 \/ h.words[1].kind # (IF jwt THEN "jwt" ELSE "firebase")
        THEN last'.status = 403 /\ last'.user = NoReqUser
        ELSE IF \A o \in UserIds :
                  users[o] = NoDoc \/ (IF jwt THEN o ELSE users[o].uid) # h.words[1].sub
        THEN last'.status = 404 /\ last'.user = NoReqUser
        ELSE /\ last'.user # NoReqUser
             /\ (IF jwt THEN last'.user.userId ELSE last'.user.uid) = h.words[1].sub]_vars

(* C5 witness: a handler behind the middleware has answered a request that
   carried a valid token in quotes *)
C5_Witness ==
  /\ last.op \in {"authStatusJwt", "authStatusFb"}
  /\ last.status = 200
  /\ last.user # NoReqUser
  /\ last.hdr.words[1].quoted

(* C6: POST /api/auth/ensure-user from any caller with a valid token, also
   one without a User document, answers 200 and the caller's User document
   exists afterwards; a second call answers 200 and leaves the document as
   it was. *)
C6_EnsureUserCreates ==
  [][(/\ last'.op \in {"ensureUserJwt", "ensureUserFb"}
      /\ last'.hdr # NoHeader
      /\ last'.hdr.words[1].kind = (IF last'.op = "ensureUserJwt" THEN "jwt" ELSE "firebase"))
     => /\ last'.status = 200
        /\ \E o \in UserIds :
             /\ users'[o] # NoDoc
             /\ (IF last'.op = "ensureUserJwt" THEN o ELSE users'[o].uid)
                  = last'.hdr.words[1].sub
        /\ (last.op = last'.op /\ last.hdr = last'.hdr /\ last.status = 200)
             => users' = users]_vars

(* C9: GET /api/users/:uid/analytics is served to admins only; a caller who
   is not an admin gets 403. *)
C9_UserAnalyticsAdminOnly ==
  [][(/\ last'.op = "routeUserAnalytics"
      /\ last'.arg \in Uids
      /\ last'.user # NoReqUser
      /\ ~last'.user.isAdmin)
     => last'.status = 403]_vars

(* C10: GET /api/users/admin/analytics from an admin is served by the
   handler of all the users, 200 with totalUsers and activeUsers, and is not
   taken by a parameterised route registered before it. *)
C10_AdminAnalyticsServed ==
  [][(/\ last'.op \in {"routeUserAnalytics", "routeAdminAnalytics"}
      /\ last'.arg = "admin"
      /\ last'.user.isAdmin)
     => /\ last'.op = "routeAdminAnalytics"
        /\ last'.status = 200
        /\ last'.out = <<"totalUsers", "activeUsers">>]_vars

----------------------------------------------------------------------------
(* Properties of the community posts *)

(* C8: POST /api/community/posts/:postId/like from an authenticated caller
   on an existing post toggles the caller's membership in the likes of the
   post and answers 200 with the new likes. *)
C8_LikeToggles ==
  [][(/\ last'.op \in {"routeTogglePostLike", "likePost"}
      /\ last'.user # NoReqUser
      /\ last'.arg \in PostIds
      /\ posts[last'.arg] # NoDoc)
     => /\ last'.status = 200
        /\ last'.out = posts'[last'.arg].likes
        /\ Len(posts'[last'.arg].likes) # Len(posts[last'.arg].likes)]_vars

----------------------------------------------------------------------------
(* Properties of the analytics of the spots *)

(* C11: GET /api/spots/admin/analytics answers 200 with totalSpots,
   totalPosts, popularCategories and popularSpots to an admin, and 403 to a
   caller who is not an admin. *)
C11_SpotsAnalyticsForAdmin ==
  [][(last'.op = "routeSpotsAdminAnalytics" /\ last'.user # NoReqUser)
     => IF last'.user.isAdmin
        THEN /\ last'.status = 200
             /\ last'.out = <<"totalSpots", "totalPosts", "popularCategories",
                              "popularSpots">>
        ELSE last'.status = 403]_vars

----------------------------------------------------------------------------
(* Properties of the deletion of accounts *)

(* C12: DELETE /api/auth/delete removes exactly the caller's own User
   document, DELETE /api/auth/delete/:id removes exactly the user the path
   names and only for an admin; no request removes or changes any other
   User document, so an admin who names another user keeps the own account
   and a non-admin never deletes another user's. *)
C12_DeleteExactlyTheNamedUser ==
  [][/\ \A o \in UserIds :
          (users[o] # NoDoc /\ users'[o] = NoDoc)
          => /\ last'.op \in {"deleteUser", "deleteUserFb"}
             /\ last'.status = 200
             /\ IF last'.arg = Undefined
                THEN IF last'.op = "deleteUser" THEN o = last'.user.userId
                     ELSE users[o].uid = last'.user.uid
                ELSE /\ last'.user.isAdmin
                     /\ IF last'.op = "deleteUser" THEN o = last'.arg
                        ELSE users[o].uid = last'.arg
     /\ last'.op \in {"deleteUser", "deleteUserFb"}
        => /\ \A o \in UserIds : users'[o] # NoDoc => users'[o] = users[o]
           /\ last'.status = 200
              => Cardinality({o \in UserIds : users[o] # NoDoc /\ users'[o] = NoDoc}) = 1]_vars

(* C12 witness: an admin has deleted another user by the path parameter and
   still has the own account *)
C12_Witness ==
  /\ last.op \in {"deleteUser", "deleteUserFb"}
  /\ last.status = 200
  /\ last.arg \in {"o2", "f2"}
  /\ last.user.isAdmin
  /\ users["o2"] = NoDoc
  /\ users["o1"] # NoDoc

----------------------------------------------------------------------------
(* Properties of the feed *)

(* C13: the feed (GET /api/spots/feed) returns only approved spots
   submitted by the users the caller follows or by the caller, ordered by
   the number of tags shared with the caller's interests, highest first and
   then newest first, at most `limit` spots a page. *)
C13_FeedOfFollowedUsers ==
  (last.op \in {"routeFeed", "fetchFeed"} /\ last.status = 200)
  => LET caller == IF last.op = "routeFeed" THEN UserIdOfUid(users, last.user.uid)
                   ELSE last.user.userId
         following == {users[caller].following[i] : i \in 1..Len(users[caller].following)}
     IN
     /\ Len(last.out) <= last.limit
     /\ \A i \in 1..Len(last.out) :
          /\ spots[last.out[i]] # NoDoc
          /\ spots[last.out[i]].status = "approved"
          /\ spots[last.out[i]].submittedBy \in following \cup {caller}
     /\ \A i, j \in 1..Len(last.out) :
          i < j => feedBefore(last.out[i], last.out[j], users[caller].interests, spots)

----------------------------------------------------------------------------
(* Properties of the notifications *)

(* C14: when a spot is liked or reviewed by a user other than its submitter
   (who has notificationsEnabled), or an admin sets its status to approved
   or rejected, the event newLike, newComment or spotStatusUpdated is
   emitted to the room the submitter's socket joins with joinUser, so a
   submitter who has joined receives it; setting the status to pending
   emits no spotStatusUpdated. *)
C14_SubmitterIsNotified ==
  (/\ last.op \in {"routeLikeSpot", "routeAddReview", "routePatchStatus"}
   /\ last.status = 200
   /\ last.arg \in SpotIds
   /\ spots[last.arg] # NoDoc
   /\ findById(users, spots[last.arg].submittedBy) # NoDoc)
  => LET submitter == users[spots[last.arg].submittedBy]
         event == CASE last.op = "routeLikeSpot" -> "newLike"
                    [] last.op = "routeAddReview" -> "newComment"
                    [] OTHER -> "spotStatusUpdated"
         due == IF last.op = "routePatchStatus"
                THEN spots[last.arg].status \in {"approved", "rejected"}
                ELSE submitter.uid # last.user.uid /\ submitter.notificationsEnabled
     IN
     /\ (due /\ Joined(submitter.uid, submitter.uid) \in rooms)
        => \E e \in last.emits : e.event = event /\ submitter.uid \in receivers(e.room)
     /\ (last.op = "routePatchStatus" /\ spots[last.arg].status = "pending")
        => \A e \in last.emits : e.event # "spotStatusUpdated"

(* C15: deleting a user removes only that user's own document: the
   followers and following of every other user and the submittedBy,
   likedBy, comments and reports of every spot stay as they were, also
   where they name the deleted user. *)
C15_DeleteLeavesReferences ==
  [][last'.op \in {"deleteUser", "deleteUserFb"}
     => /\ spots' = spots
        /\ posts' = posts
        /\ \A o \in UserIds :
             users'[o] # NoDoc
             => /\ users[o] # NoDoc
                /\ users'[o].followers = users[o].followers
                /\ users'[o].following = users[o].following]_vars

(* C15 witness: user o2 has been deleted and is still a follower of o3 and
   the submitter of spot s1 *)
C15_Witness ==
  /\ last.op \in {"deleteUser", "deleteUserFb"}
  /\ last.status = 200
  /\ users["o2"] = NoDoc
  /\ users["o3"] # NoDoc
  /\ includes(users["o3"].followers, "o2")
  /\ spots["s1"] # NoDoc
  /\ spots["s1"].submittedBy = "o2"

(* ------------------------------------------------------------------ *)
(* Follow lists (routes/usersRoute.js) and the routes that take a      *)
(* document id in the path                                             *)
(* ------------------------------------------------------------------ *)

FRes(code, out, U, emits) ==
  [status |-> code, out |-> out, users |-> U, emits |-> emits]

(* A follow handler without the check of user.following *)
routeFollow_noFollowingCheck(u, id, U) ==
  LET o == UserIdOfUid(U, u.uid)
      userToFollow == findById(U, id)
  IN
  IF ~isMongoId(id) THEN FRes(400, <<>>, U, {})
  ELSE IF o = Undefined \/ userToFollow = NoDoc THEN FRes(404, <<>>, U, {})
  ELSE IF o = id THEN FRes(400, <<>>, U, {})
  ELSE FRes(200, <<id>>,
            [U EXCEPT ![o].following = Append(@, id),
                      ![id].followers = Append(@, o)],
            IF userToFollow.notificationsEnabled
            THEN {Emit(userToFollow.uid, "newFollower")} ELSE {})

(* POST /api/users/follow/:userId *)
routeFollow(u, id, U) ==
  LET o == UserIdOfUid(U, u.uid)
      userToFollow == findById(U, id)
  IN
  IF ~isMongoId(id) THEN FRes(400, <<>>, U, {})
  ELSE IF o = Undefined \/ userToFollow = NoDoc THEN FRes(404, <<>>, U, {})
  ELSE IF o = id THEN FRes(400, <<>>, U, {})
  ELSE IF includes(U[o].following, id) THEN FRes(400, <<>>, U, {})
  ELSE FRes(200, <<id>>,
            [U EXCEPT ![o].following = Append(@, id),
                      ![id].followers = Append(@, o)],
            IF userToFollow.notificationsEnabled
            THEN {Emit(userToFollow.uid, "newFollower")} ELSE {})

(* POST /api/users/unfollow/:userId *)
routeUnfollow(u, id, U) ==
  LET o == UserIdOfUid(U, u.uid)
      userToUnfollow == findById(U, id)
  IN
  IF ~isMongoId(id) THEN FRes(400, <<>>, U, {})
  ELSE IF o = Undefined \/ userToUnfollow = NoDoc THEN FRes(404, <<>>, U, {})
  ELSE IF ~includes(U[o].following, id) THEN FRes(400, <<>>, U, {})
  ELSE FRes(200, <<id>>,
            [U EXCEPT ![o].following = without(@, id),
                      ![id].followers = without(@, o)],
            IF userToUnfollow.notificationsEnabled
            THEN {Emit(userToUnfollow.uid, "lostFollower")} ELSE {})

(* populate(path): the ids of the array are replaced by their documents,
   and an id without a document is left out of the array *)
populate(ids, U) == SelectSeq(ids, LAMBDA o : findById(U, o) # NoDoc)

(* Math.ceil(count / limit) *)
ceilDiv(count, limit) == (count + limit - 1) \div limit

(* Array.prototype.slice(skip, skip + limit) *)
slice(seq, skip, limit) == SubSeq(seq, skip + 1, Min(skip + limit, Len(seq)))

LRes(code, out, totalPages) ==
  [status |-> code, out |-> out, totalPages |-> totalPages]

(* A listing that would start each page one entry late *)
listPage_offByOne(list, page, limit) ==
  LRes(200, slice(list, (page - 1) * limit + 1, limit), ceilDiv(Len(list), limit))

(* the handler shared by the two listings, over the populated array *)
listPage(list, page, limit) ==
  LRes(200, slice(list, (page - 1) * limit, limit), ceilDiv(Len(list), limit))

(* GET /api/users/:userId/followers *)
routeFollowers(id, page, limit, U) ==
  IF ~isMongoId(id) \/ ~paginationValid(page, limit) THEN LRes(400, <<>>, 0)
  ELSE IF findById(U, id) = NoDoc THEN LRes(404, <<>>, 0)
  ELSE listPage(populate(U[id].followers, U), page, limit)

(* GET /api/users/:userId/following *)
routeFollowing(id, page, limit, U) ==
  IF ~isMongoId(id) \/ ~paginationValid(page, limit) THEN LRes(400, <<>>, 0)
  ELSE IF findById(U, id) = NoDoc THEN LRes(404, <<>>, 0)
  ELSE listPage(populate(U[id].following, U), page, limit)

(* GET /api/community/posts/:postId/comments: the id goes to findById as
   it came; the CastError reaches the global error handler *)
routePostComments(id, P) ==
  IF ~castObjectId(id) THEN PRes(500, <<>>, P)
  ELSE IF findById(P, id) = NoDoc THEN PRes(404, <<>>, P)
  ELSE PRes(200, <<>>, P)

Follow(h, id) ==
  LET a == authMiddlewareFirebase(h, users) IN
  AccountRequest("routeFollow", h, a.user, id,
    IF a.status # 0 THEN FRes(a.status, <<>>, users, {})
    ELSE routeFollow(a.user, id, users))

Unfollow(h, id) ==
  LET a == authMiddlewareFirebase(h, users) IN
  AccountRequest("routeUnfollow", h, a.user, id,
    IF a.status # 0 THEN FRes(a.status, <<>>, users, {})
    ELSE routeUnfollow(a.user, id, users))

ListRequest(op, id, page, limit, r) ==
  /\ last' = Reply(op, NoHeader, NoReqUser, id,
                   [status |-> r.status, out |-> r.out,
                    page |-> page, limit |-> limit])
  /\ UNCHANGED <<users, spots, posts, rooms, pending, now, issued>>

Followers(id, page, limit) ==
  ListRequest("routeFollowers", id, page, limit,
              routeFollowers(id, page, limit, users))

Following(id, page, limit) ==
  ListRequest("routeFollowing", id, page, limit,
              routeFollowing(id, page, limit, users))

PostComments(id) ==
  PostRequest("routePostComments", NoHeader, NoReqUser, id,
              routePostComments(id, posts))

(* The requests of this specification carry every kind of id: of a
   document that exists, of one that does not, and a malformed one. *)
IdHdrs == {NoHeader, FbHdr("f2")}
SomeUserIds == {"o3", "o4"} \cup MalformedIds
SomeSpotIds == {"s1", "s2"} \cup MalformedIds
SomePostIds == {"p1", "p2"} \cup MalformedIds

NextIds ==
  \/ \E h \in IdHdrs, b \in ModBodies : SubmitSpotRoute(h, b, 0, "s1")
  \/ \E h \in IdHdrs : CreatePost(h, "p1")
  \/ \E id \in SomeSpotIds : GetSpotRoute(NoHeader, id)
  \/ \E id \in SomePostIds : PostComments(id)
  \/ \E h \in IdHdrs, id \in SomePostIds : TogglePostLikeRoute(h, id)
  \/ \E h \in IdHdrs, id \in SomeUserIds : Follow(h, id)
  \/ \E h \in IdHdrs, id \in SomeUserIds : Unfollow(h, id)
  \/ \E id \in SomeUserIds : Followers(id, 1, 1)
  \/ \E id \in SomeUserIds : Following(id, 1, 1)
  \/ \E h \in JwtMods, id \in SomeUserIds :
       DeleteUserById(h, id)

SpecIds == Init /\ [][NextIds]_vars

(* The follow lists grow and shrink by follow and unfollow, a user may
   delete the own account, and the two listings are read with every page
   and limit of the bounds, valid or not. *)
MaxPage == 3
MaxLimit == 2
Pages == 0 .. MaxPage
Limits == (0 .. MaxLimit) \cup {100, 101}
Followees == {"o1", "o3"}
FollowHdrs == {NoHeader, FbHdr("f1"), FbHdr("f2")}

NextFollow ==
  \/ \E h \in FollowHdrs, id \in Followees : Follow(h, id)
  \/ \E h \in FollowHdrs, id \in Followees : Unfollow(h, id)
  \/ \E id \in {"o3"} \cup MalformedIds, page \in Pages, limit \in Limits :
       Followers(id, page, limit)
  \/ \E id \in {"o2", "o4"}, page \in Pages, limit \in Limits :
       Following(id, page, limit)
  \/ \E h \in Leavers : DeleteOwnAccountFb(h, TRUE)

SpecFollow == Init /\ [][NextFollow]_vars

(* ------------------------------------------------------------------ *)
(* Sessions of the JWT revision (controller/authController.js): signup, *)
(* login, refresh and logout, each handler split at its awaits          *)
(* ------------------------------------------------------------------ *)

(* jwt.sign({userId}, JWT_SECRET, {expiresIn}): the token is a function
   of the payload, the secret, and the second it is signed in (iat) *)
jwtSign(o, t, expiresIn) == [sub |-> o, iat |-> t, expiresIn |-> expiresIn]

(* uuidv4() for the document that gets the id o *)
uuidv4(o) == IF o = "o4" THEN "u4" ELSE "u0"

(* body("email").isEmail() *)
isEmail(email) == email # "notAnEmail"

(* signup, from its start to the findOne({email}) *)
signupFind(email, U) ==
  IF ~isEmail(email) THEN ARes(400, <<>>, U)
  ELSE IF emailTaken(U, email, Undefined) THEN ARes(400, <<>>, U)
  ELSE ARes(0, <<>>, U)

(* signup, the first user.save(): the unique index on email rejects a
   second document with the email (E11000), which the catch block hands
   to the global error handler *)
signupSave(email, newId, U) ==
  IF emailTaken(U, email, Undefined) THEN ARes(500, <<>>, U)
  ELSE ARes(0, <<newId>>, [U EXCEPT ![newId] = NewUser(uuidv4(newId), email, FALSE)])

(* signup, from jwt.sign to the response: the refresh token is pushed and
   the document saved again *)
signupStore(id, t, U) ==
  IF findById(U, id) = NoDoc THEN ARes(500, <<>>, U)
  ELSE ARes(201, <<id>>,
            [U EXCEPT ![id].refreshTokens = Append(@, jwtSign(id, t, "7d"))])

Holding(pc, email, id) == [pc |-> pc, email |-> email, id |-> id]

(* The refresh tokens held in the collection; a response of signup, login
   or refresh sends the token it has stored, and issued holds every token
   that was ever sent: the tokens a client can present *)
storedTokens(U) ==
  UNION {{U[o].refreshTokens[i] : i \in 1 .. Len(U[o].refreshTokens)} :
           o \in {p \in UserIds : U[p] # NoDoc}}

SessionRequest(op, arg, r, p) ==
  /\ users' = r.users
  /\ pending' = p
  /\ last' = Reply(op, NoHeader, NoReqUser, arg, r)
  /\ issued' = issued \cup storedTokens(r.users)
  /\ UNCHANGED <<spots, posts, rooms, now>>

SignupFind(r, email) ==
  /\ pending[r] = Idle
  /\ LET res == signupFind(email, users) IN
     SessionRequest("signup", email, res,
       IF res.status # 0 THEN pending
       ELSE [pending EXCEPT ![r] = Holding("hash", email, Undefined)])

SignupSave(r, newId) ==
  /\ pending[r].pc = "hash"
  /\ emailTaken(users, pending[r].email, Undefined) \/ users[newId] = NoDoc
  /\ LET res == signupSave(pending[r].email, newId, users) IN
     SessionRequest("signup", pending[r].email, res,
       IF res.status # 0 THEN [pending EXCEPT ![r] = Idle]
       ELSE [pending EXCEPT ![r] = Holding("token", pending[r].email, newId)])

SignupStore(r) ==
  /\ pending[r].pc = "token"
  /\ SessionRequest("signup", pending[r].email,
                    signupStore(pending[r].id, now, users),
                    [pending EXCEPT ![r] = Idle])

(* A token that jwt.verify rejects *)
GarbageToken == [garbage |-> TRUE]

TRes(code, out, U, tok) == [status |-> code, out |-> out, users |-> U, tok |-> tok]

UserIdOfEmail(U, email) ==
  IF \E o \in UserIds : U[o] # NoDoc /\ U[o].email = email
  THEN CHOOSE o \in UserIds : U[o] # NoDoc /\ U[o].email = email
  ELSE Undefined

(* authController.login; pwOk is the outcome of bcrypt.compare *)
login(email, pwOk, t, U) ==
  LET o == UserIdOfEmail(U, email) IN
  IF ~isEmail(email) THEN ARes(400, <<>>, U)
  ELSE IF o = Undefined THEN ARes(403, <<>>, U)
  ELSE IF ~pwOk THEN ARes(403, <<>>, U)
  ELSE ARes(200, <<jwtSign(o, t, "7d")>>,
            [U EXCEPT ![o].refreshTokens = Append(@, jwtSign(o, t, "7d"))])

(* authController.refreshToken; tok is req.body.refreshToken *)
refreshToken(tok, t, U) ==
  IF tok = NoRefreshToken THEN TRes(400, <<>>, U, tok)
  ELSE IF tok = GarbageToken THEN TRes(403, <<>>, U, tok)
  ELSE LET user == findById(U, tok.sub) IN
    IF user = NoDoc \/ ~includes(user.refreshTokens, tok) THEN TRes(403, <<>>, U, tok)
    ELSE LET newRefreshToken == jwtSign(tok.sub, t, "7d") IN
      TRes(200, <<newRefreshToken>>,
           [U EXCEPT ![tok.sub].refreshTokens =
              Append(without(@, tok), newRefreshToken)],
           tok)

(* A logout that would drop every refresh token of the caller *)
logout_dropsAll(u, tok, U) ==
  IF findById(U, u.userId) = NoDoc THEN TRes(404, <<>>, U, tok)
  ELSE IF tok = NoRefreshToken THEN TRes(200, <<>>, U, tok)
  ELSE TRes(200, <<>>, [U EXCEPT ![u.userId].refreshTokens = <<>>], tok)

(* authController.logout, behind authMiddleware *)
logout(u, tok, U) ==
  IF findById(U, u.userId) = NoDoc THEN TRes(404, <<>>, U, tok)
  ELSE IF tok = NoRefreshToken THEN TRes(200, <<>>, U, tok)
  ELSE TRes(200, <<>>, [U EXCEPT ![u.userId].refreshTokens = without(@, tok)], tok)

(* login of the Firebase revision. The catch of getUserByEmail answers 403
   and returns res, which the handler then takes for the user record: it
   goes on to updateUser(undefined), which throws, and the global error
   handler tries to answer a second time. The password of the body is
   never looked at. again: the handler raised an error after its answer. *)
loginFb(email, U) ==
  LET o == UserIdOfEmail(U, email) IN
  IF ~isEmail(email) THEN [status |-> 400, out |-> <<>>, users |-> U, again |-> FALSE]
  ELSE IF o = Undefined THEN [status |-> 403, out |-> <<>>, users |-> U, again |-> TRUE]
  ELSE (* the response carries uid and email and no token *)
       [status |-> 200, out |-> <<>>, users |-> U, again |-> FALSE]

(* what the login request carried: pw, whether its password is the
   password of the user of its email *)
WithPw(r, pwOk) ==
  [status |-> r.status, out |-> r.out, users |-> r.users, pw |-> pwOk,
   again |-> IF "again" \in DOMAIN r THEN r.again ELSE FALSE]

Login(email, pwOk) ==
  /\ \A o \in UserIds : users[o] # NoDoc => Len(users[o].refreshTokens) < MaxTokens
  /\ SessionRequest("login", email, WithPw(login(email, pwOk, now, users), pwOk),
                    pending)

LoginFb(email, pwOk) ==
  SessionRequest("loginFb", email, WithPw(loginFb(email, users), pwOk), pending)

Refresh(tok) ==
  /\ tok \in issued \cup {NoRefreshToken, GarbageToken}
  /\ SessionRequest("refreshToken", Undefined, refreshToken(tok, now, users), pending)

Logout(h, tok) ==
  LET a == authMiddlewareJwt(h, users) IN
  /\ tok \in issued \cup {NoRefreshToken, GarbageToken}
  /\ users' = (IF a.status # 0 THEN users ELSE logout(a.user, tok, users).users)
  /\ last' = Reply("logout", h, a.user, Undefined,
                   IF a.status # 0 THEN TRes(a.status, <<>>, users, tok)
                   ELSE logout(a.user, tok, users))
  /\ UNCHANGED <<spots, posts, rooms, pending, now, issued>>

(* one second passes *)
Tick ==
  /\ now < MaxTime
  /\ now' = now + 1
  /\ last' = [NoRequest EXCEPT !.op = "tick"]
  /\ UNCHANGED <<users, spots, posts, rooms, pending, issued>>

(* The emails of the registrations: one that user o2 has, a new one, and
   a string that is no email *)
SignupEmails == {"e2", "e9", "notAnEmail"}
FreshIds == {"o4"}

(* the refresh tokens a client may present: every token signed for the
   users o2 and o4 within the bound, an access token, none, and garbage *)
PresentedTokens ==
  {jwtSign(o, t, "7d") : o \in {"o2", "o4"}, t \in 0 .. MaxTime}
  \cup {jwtSign("o2", 0, "1h"), NoRefreshToken, GarbageToken}
LoginEmails == {"e2", "e9", "notAnEmail"}
LogoutHdrs == {NoHeader, JwtHdr("o2")}
LogoutTokens == {NoRefreshToken, jwtSign("o2", 0, "7d")}

NextSession ==
  \/ \E r \in ReqIds, email \in SignupEmails : SignupFind(r, email)
  \/ \E r \in ReqIds, newId \in FreshIds : SignupSave(r, newId)
  \/ \E r \in ReqIds : SignupStore(r)
  \/ \E email \in LoginEmails, pwOk \in BOOLEAN : Login(email, pwOk)
  \/ \E email \in LoginEmails, pwOk \in BOOLEAN : LoginFb(email, pwOk)
  \/ \E tok \in PresentedTokens : Refresh(tok)
  \/ \E h \in LogoutHdrs, tok \in LogoutTokens : Logout(h, tok)
  \/ Tick

SpecSession == Init /\ [][NextSession]_vars

(* ------------------------------------------------------------------ *)
(* Likes and favorites, each handler split at the await between its     *)
(* findById and its write                                              *)
(* ------------------------------------------------------------------ *)

(* POST /api/users/:uid/favorites; id is req.body.spotId *)
routeAddFavorite(u, uid, id, S) ==
  IF ~isMongoId(id) THEN Res(400, <<>>, S)
  ELSE IF uid # u.uid THEN Res(403, <<>>, S)
  ELSE routeLikeSpot(u, id, S)

(* DELETE /api/users/:uid/favorites/:spotId *)
routeRemoveFavorite(u, uid, id, S) ==
  IF ~isMongoId(id) THEN Res(400, <<>>, S)
  ELSE IF uid # u.uid THEN Res(403, <<>>, S)
  ELSE routeUnlikeSpot(u, id, S)

LikeOps == {"routeLikeSpot", "routeUnlikeSpot", "routeAddFavorite",
            "routeRemoveFavorite", "likeSpot", "unlikeSpot"}
CtlOps == {"likeSpot", "unlikeSpot"}

(* The handler up to its write, on the spot it has read: the status it
   answers with, or 200 when it goes on to write *)
likeCheck(op, u, uid, id, S) ==
  CASE op = "routeLikeSpot" -> routeLikeSpot(u, id, S).status
    [] op = "routeUnlikeSpot" -> routeUnlikeSpot(u, id, S).status
    [] op = "routeAddFavorite" -> routeAddFavorite(u, uid, id, S).status
    [] op = "routeRemoveFavorite" -> routeRemoveFavorite(u, uid, id, S).status
    [] op = "likeSpot" -> likeSpot(u, id, S).status
    [] op = "unlikeSpot" -> unlikeSpot(u, id, S).status

(* likedBy validator: v.length === new Set(v).size *)
uniqueIds(v) == \A i, j \in 1 .. Len(v) : i # j => v[i] # v[j]

(* The write of the handler that holds p, on the collection as it is
   now. spot.save() validates the document the handler holds, sends a
   pushed entry as $push, and sends a replaced array as $set with the
   version the document was read at in the filter; findByIdAndUpdate
   sends $push or $pull and runs no validator. *)
likeWrite(p, S) ==
  LET spot == findById(S, p.spot)
      who == IF p.op \in CtlOps THEN p.user.userId ELSE p.user.uid
  IN
  IF spot = NoDoc THEN Res(500, <<>>, S)
  ELSE CASE p.op \in {"routeLikeSpot", "routeAddFavorite"} ->
              IF ~uniqueIds(Append(p.likedBy, who)) THEN Res(500, <<>>, S)
              ELSE Res(200, <<p.spot>>, [S EXCEPT ![p.spot].likedBy = Append(@, who)])
         [] p.op \in {"routeUnlikeSpot", "routeRemoveFavorite"} ->
              IF p.stale THEN Res(500, <<>>, S)
              ELSE Res(200, <<p.spot>>,
                       [S EXCEPT ![p.spot].likedBy = without(p.likedBy, who)])
         [] p.op = "likeSpot" ->
              Res(200, <<p.spot>>, [S EXCEPT ![p.spot].likedBy = Append(@, who)])
         [] p.op = "unlikeSpot" ->
              Res(200, <<p.spot>>, [S EXCEPT ![p.spot].likedBy = without(@, who)])

(* spot.save() increments the version of the document, so every other
   handler that holds the document holds an old version *)
afterWrite(r, res, P) ==
  [q \in ReqIds |->
     IF q = r THEN Idle
     ELSE IF /\ P[q].pc = "write"
             /\ P[q].spot = P[r].spot
             /\ P[r].op \notin CtlOps
             /\ res.status = 200
          THEN [P[q] EXCEPT !.stale = TRUE]
          ELSE P[q]]

LikeBegin(r, op, h, uid, id) ==
  /\ pending[r] = Idle
  /\ Bounded(spots)
  /\ LET a == IF op \in CtlOps THEN authMiddlewareJwt(h, users)
              ELSE authMiddlewareFirebase(h, users)
         status == IF a.status # 0 THEN a.status
                   ELSE likeCheck(op, a.user, uid, id, spots)
     IN
     /\ pending' = IF status # 200 THEN pending
                   ELSE [pending EXCEPT ![r] =
                           [pc |-> "write", op |-> op, hdr |-> h, user |-> a.user,
                            spot |-> id, likedBy |-> spots[id].likedBy,
                            stale |-> FALSE]]
     /\ last' = Reply(op, h, a.user, id,
                      Res(IF status = 200 THEN 0 ELSE status, <<>>, spots))
  /\ UNCHANGED <<users, spots, posts, rooms, now, issued>>

LikeWrite(r) ==
  /\ pending[r].pc = "write"
  /\ LET p == pending[r]
         res == likeWrite(p, spots)
         emits == IF p.op = "routeLikeSpot" /\ res.status = 200
                  THEN engagementEmits(p.user, spots[p.spot], "newLike", users)
                  ELSE IF p.op \in CtlOps /\ res.status = 200
                  THEN {Emit(p.spot, "spotUpdated")}
                  ELSE {}
     IN
     /\ spots' = res.spots
     /\ pending' = afterWrite(r, res, pending)
     /\ last' = Reply(p.op, p.hdr, p.user, p.spot, WithEmits(res, emits))
  /\ UNCHANGED <<users, posts, rooms, now, issued>>

(* User f2 submits spot s1, the administrator approves it, and user o3
   (uid f3) likes and unlikes it through every handler, two requests at
   a time. *)
LikeHdr(op) == IF op \in CtlOps THEN JwtReviewers ELSE FbReviewers

NextLikes ==
  \/ \E h \in Leavers, b \in ModBodies : SubmitSpotRoute(h, b, 0, "s1")
  \/ \E h \in Moderators : PatchSpotStatus(h, "s1", "approved")
  \/ \E r \in ReqIds, op \in LikeOps, uid \in {"f2", "f3"}, id \in FocusSpots :
       \E h \in LikeHdr(op) : LikeBegin(r, op, h, uid, id)
  \/ \E r \in ReqIds : LikeWrite(r)

SpecLikes == Init /\ [][NextLikes]_vars

(* Follow and unfollow, one database operation at a time: the handler
   reads both users and checks, then Promise.all([user.save(),
   userToFollow.save()]) sends two updates that arrive in any order.  A
   pushed entry goes out as $push; an array replaced by its filtered copy
   goes out as $set of the copy with the version the document was read at
   in the filter; every save increments the version. *)
followCheck(op, u, id, U) ==
  IF op = "routeFollow" THEN routeFollow(u, id, U).status
  ELSE routeUnfollow(u, id, U).status

(* one of the two saves of the handler that holds p *)
followSave(p, which, U) ==
  IF p.op = "routeFollow"
  THEN [ok |-> TRUE,
        users |-> IF which = "user"
                  THEN [U EXCEPT ![p.me].following = Append(@, p.target)]
                  ELSE [U EXCEPT ![p.target].followers = Append(@, p.me)]]
  ELSE IF which \in p.stale THEN [ok |-> FALSE, users |-> U]
  ELSE [ok |-> TRUE,
        users |-> IF which = "user"
                  THEN [U EXCEPT ![p.me].following = without(p.following, p.target)]
                  ELSE [U EXCEPT ![p.target].followers = without(p.followers, p.me)]]

FollowBegin(r, op, h, id) ==
  /\ pending[r] = Idle
  /\ LET a == authMiddlewareFirebase(h, users)
         status == IF a.status # 0 THEN a.status ELSE followCheck(op, a.user, id, users)
         o == UserIdOfUid(users, a.user.uid)
     IN
     /\ (op = "routeFollow" /\ status = 200)
        => (Len(users[o].following) < MaxFollows /\ Len(users[id].followers) <= MaxFollows)
     /\ pending' = IF status # 200 THEN pending
                   ELSE [pending EXCEPT ![r] =
                           [pc |-> "saves", op |-> op, hdr |-> h, user |-> a.user,
                            me |-> o, target |-> id,
                            following |-> users[o].following,
                            followers |-> users[id].followers,
                            saved |-> {}, stale |-> {}, failed |-> FALSE]]
     /\ last' = Reply(op, h, a.user, id,
                      FRes(IF status = 200 THEN 0 ELSE status, <<>>, users, {}))
  /\ UNCHANGED <<users, spots, posts, rooms, now, issued>>

FollowSave(r, which) ==
  /\ pending[r].pc = "saves"
  /\ which \notin pending[r].saved
  /\ LET p == pending[r]
         res == followSave(p, which, users)
         doc == IF which = "user" THEN p.me ELSE p.target
         saved == p.saved \cup {which}
         failed == p.failed \/ ~res.ok
         done == saved = {"user", "target"}
         event == IF p.op = "routeFollow" THEN "newFollower" ELSE "lostFollower"
     IN
     /\ users' = res.users
     /\ pending' =
          [q \in ReqIds |->
             IF q = r
             THEN IF done THEN Idle ELSE [p EXCEPT !.saved = saved, !.failed = failed]
             ELSE IF pending[q].pc = "saves" /\ res.ok
             THEN [pending[q] EXCEPT !.stale =
                     @ \cup (IF pending[q].me = doc THEN {"user"} ELSE {})
                       \cup (IF pending[q].target = doc THEN {"target"} ELSE {})]
             ELSE pending[q]]
     /\ last' = IF ~done THEN last
                ELSE Reply(p.op, p.hdr, p.user, p.target,
                           FRes(IF failed THEN 500 ELSE 200, <<>>, res.users,
                                IF ~failed /\ users[p.target].notificationsEnabled
                                THEN {Emit(users[p.target].uid, event)} ELSE {}))
  /\ UNCHANGED <<spots, posts, rooms, now, issued>>

(* The administrator o1 and user o2 follow and unfollow user o3, each
   with one request at a time. *)
Fans(r) == IF r = "r1" THEN Moderators ELSE Leavers

NextSymmetry ==
  \/ \E r \in ReqIds, op \in {"routeFollow", "routeUnfollow"} :
       \E h \in Fans(r) : FollowBegin(r, op, h, "o3")
  \/ \E r \in ReqIds, which \in {"user", "target"} : FollowSave(r, which)

SpecSymmetry == Init /\ [][NextSymmetry]_vars

(* The sockets of f2 and f3 send every client message, with the id of a
   spot or any other string as spotId, while f2 follows and unfollows o3. *)
Sockets == {"f2", "f3"}
RoomNames == {"s1", "f2", "f3"}

NextRooms ==
  \/ \E f \in Sockets : JoinUser(f)
  \/ \E f \in Sockets : LeaveUser(f)
  \/ \E f \in Sockets, room \in RoomNames : JoinSpot(f, room)
  \/ \E f \in Sockets, room \in RoomNames : LeaveSpot(f, room)
  \/ \E h \in Leavers : Follow(h, "o3")
  \/ \E h \in Leavers : Unfollow(h, "o3")

SpecRooms == Init /\ [][NextRooms]_vars

(* The reports of one spot: submitted by f2, moderated by the
   administrator, reported by o2 and o3 through both revisions. *)
OwnerSpotBodies == [name : {"n1"}, status : {Undefined}, tags : {{"Nature"}}]

ReportRequest(op, h, u, arg, r) ==
  /\ \A s \in SpotIds : r.spots[s] # NoDoc => Len(r.spots[s].reports) <= MaxRepeats
  /\ spots' = r.spots
  /\ last' = Reply(op, h, u, arg, r)
  /\ UNCHANGED <<users, posts, rooms, pending, now, issued>>

ReportRoute(h, id) ==
  LET a == authMiddlewareFirebase(h, users) IN
  ReportRequest("routeReportSpot", h, a.user, id,
    Guarded(a, routeReportSpot(a.user, id, spots, users)))

ReportCtl(h, id) ==
  LET a == authMiddlewareJwt(h, users) IN
  ReportRequest("reportSpot", h, a.user, id, Guarded(a, reportSpot(a.user, id, spots)))

NextReport ==
  \/ \E h \in Leavers, b \in OwnerSpotBodies : SubmitSpotRoute(h, b, 0, "s1")
  \/ \E h \in Moderators, st \in Statuses : PatchSpotStatus(h, "s1", st)
  \/ \E h \in FbLikers : ReportRoute(h, "s1")
  \/ \E h \in JwtSubmitters : ReportCtl(h, "s1")

SpecReport == Init /\ [][NextReport]_vars

(* The ratings of one spot: submitted by o2, approved, reviewed by o3
   through both revisions and updated by its owner.  averageRating is
   kept in tenths. *)
RatingBodies ==
  OwnerSpotBodies \cup
  [name : {Undefined}, status : {Undefined}, tags : {{}}, averageRating : {5, 30, 60}]

NextRating ==
  \/ \E h \in SubmitterHdrs, b \in OwnerSpotBodies : SubmitSpotCtl(h, b, 0, "s1")
  \/ \E h \in Moderators : PatchSpotStatus(h, "s1", "approved")
  \/ \E h \in FbReviewers, r \in {0, 3, 4} : AddReviewRoute(h, "s1", r)
  \/ \E h \in JwtReviewers, r \in {0, 4, 6} : AddCommentCtl(h, "s1", r)
  \/ \E h \in SubmitterHdrs, b \in RatingBodies : UpdateSpotCtl(h, "s1", b)
  \/ \E h \in SubmitterHdrs, b \in OwnerSpotBodies : UpdateSpotRoute(h, "s1", b)

SpecRating == Init /\ [][NextRating]_vars

(* ------------------------------------------------------------------ *)
(* The per-user resources of routes/usersRoute.js: /api/users/:uid/... *)
(* ------------------------------------------------------------------ *)

URes(code, out, U, S) == [status |-> code, out |-> out, users |-> U, spots |-> S]

(* body("interests.*").isIn([...]): "Casinos" is not in the list *)
validInterests(interests) == interests \subseteq Tags

(* body("notificationsEnabled").optional().isBoolean() *)
validSetting(setting) == setting \in {"absent", "true", "false"}

(* GET /api/users/:uid/favorites *)
routeGetFavorites(u, uid, S) ==
  IF uid # u.uid THEN Res(403, <<>>, S)
  ELSE Res(200, SeqOf({s \in SpotIds : /\ S[s] # NoDoc
                                        /\ includes(S[s].likedBy, uid)
                                        /\ S[s].status = "approved"}), S)

(* GET /api/users/:uid *)
routeGetUser(u, uid, U) ==
  LET o == UserIdOfUid(U, uid) IN
  IF uid # u.uid THEN ARes(403, <<>>, U)
  ELSE IF o = Undefined THEN ARes(404, <<>>, U)
  ELSE ARes(200, <<o>>, U)

(* A handler that would update the interests of the user of the path *)
routeSetInterests_noOwnerCheck(u, uid, interests, U) ==
  LET o == UserIdOfUid(U, uid) IN
  IF ~validInterests(interests) THEN ARes(400, <<>>, U)
  ELSE IF o = Undefined THEN ARes(404, <<>>, U)
  ELSE ARes(200, <<o>>, [U EXCEPT ![o].interests = interests])

(* POST /api/users/:uid/interests *)
routeSetInterests(u, uid, interests, U) ==
  LET o == UserIdOfUid(U, uid) IN
  IF ~validInterests(interests) THEN ARes(400, <<>>, U)
  ELSE IF uid # u.uid THEN ARes(403, <<>>, U)
  ELSE IF o = Undefined THEN ARes(404, <<>>, U)
  ELSE ARes(200, <<o>>, [U EXCEPT ![o].interests = interests])

(* GET /api/users/:uid/interests, GET /api/users/:uid/settings *)
routeGetField(u, uid, U) == routeGetUser(u, uid, U)

(* GET /api/users/:uid/posts *)
routeGetPosts(u, uid, S, U) ==
  LET o == UserIdOfUid(U, uid) IN
  IF uid # u.uid THEN Res(403, <<>>, S)
  ELSE IF o = Undefined THEN Res(404, <<>>, S)
  ELSE Res(200, SeqOf({s \in SpotIds : /\ S[s] # NoDoc
                                        /\ S[s].submittedBy = o
                                        /\ S[s].status = "approved"}), S)

(* PUT /api/users/:uid/settings *)
routePutSettings(u, uid, setting, U) ==
  LET o == UserIdOfUid(U, uid) IN
  IF ~validSetting(setting) THEN ARes(400, <<>>, U)
  ELSE IF uid # u.uid THEN ARes(403, <<>>, U)
  ELSE IF o = Undefined THEN ARes(404, <<>>, U)
  ELSE ARes(200, <<o>>,
            IF setting = "absent" THEN U
            ELSE [U EXCEPT ![o].notificationsEnabled = (setting = "true")])

(* PUT /api/users/:uid, for the fields of the model *)
routePutUser(u, uid, interests, setting, U) ==
  LET o == UserIdOfUid(U, uid) IN
  IF ~validInterests(interests) \/ ~validSetting(setting) THEN ARes(400, <<>>, U)
  ELSE IF uid # u.uid THEN ARes(403, <<>>, U)
  ELSE IF o = Undefined THEN ARes(404, <<>>, U)
  ELSE ARes(200, <<o>>,
            [U EXCEPT ![o].interests = interests,
                      ![o].notificationsEnabled =
                         IF setting = "absent" THEN @ ELSE (setting = "true")])

PerUserOps == {"routeGetFavorites", "routeGetUser", "routeSetInterests",
               "routeGetInterests", "routeAddFavorite", "routeRemoveFavorite",
               "routeGetPosts", "routeGetSettings", "routePutSettings",
               "routePutUser"}

(* the handler of the route op, behind authMiddleware *)
perUser(op, h, uid, body, S, U) ==
  LET a == authMiddlewareFirebase(h, U)
      u == a.user
      onUsers(r) == URes(r.status, r.out, r.users, S)
      onSpots(r) == URes(r.status, r.out, U, r.spots)
  IN
  IF a.status # 0 THEN URes(a.status, <<>>, U, S)
  ELSE CASE op = "routeGetFavorites" -> onSpots(routeGetFavorites(u, uid, S))
         [] op = "routeGetUser" -> onUsers(routeGetUser(u, uid, U))
         [] op = "routeSetInterests" ->
              onUsers(routeSetInterests(u, uid, body.interests, U))
         [] op = "routeGetInterests" -> onUsers(routeGetField(u, uid, U))
         [] op = "routeAddFavorite" -> onSpots(routeAddFavorite(u, uid, body.spotId, S))
         [] op = "routeRemoveFavorite" ->
              onSpots(routeRemoveFavorite(u, uid, body.spotId, S))
         [] op = "routeGetPosts" -> onSpots(routeGetPosts(u, uid, S, U))
         [] op = "routeGetSettings" -> onUsers(routeGetField(u, uid, U))
         [] op = "routePutSettings" -> onUsers(routePutSettings(u, uid, body.setting, U))
         [] op = "routePutUser" ->
              onUsers(routePutUser(u, uid, body.interests, body.setting, U))

(* the validators of the route op accept the body *)
perUserValid(op, body) ==
  CASE op \in {"routeSetInterests"} -> validInterests(body.interests)
    [] op \in {"routeAddFavorite", "routeRemoveFavorite"} -> isMongoId(body.spotId)
    [] op = "routePutSettings" -> validSetting(body.setting)
    [] op = "routePutUser" -> validInterests(body.interests) /\ validSetting(body.setting)
    [] OTHER -> TRUE

PerUserRoute(h, op, uid, body) ==
  LET r == perUser(op, h, uid, body, spots, users) IN
  /\ Bounded(r.spots)
  /\ users' = r.users
  /\ spots' = r.spots
  /\ last' = Reply(op, h, authMiddlewareFirebase(h, users).user, uid, r)
  /\ UNCHANGED <<posts, rooms, pending, now, issued>>

(* Users f2 and f3 read and write the resources of f2 and of f3; spot s1
   is there to be a favorite *)
OwnerHdrs == {FbHdr("f2"), FbHdr("f3")}
OwnerUids == {"f2", "f3"}
OwnerBodies ==
  {[interests |-> {"Temples"}, setting |-> "false", spotId |-> "s1"],
   [interests |-> {"Casinos"}, setting |-> "maybe", spotId |-> "abc"]}

NextOwner ==
  \/ \E h \in Leavers, b \in OwnerSpotBodies : SubmitSpotRoute(h, b, 0, "s1")
  \/ \E h \in Moderators : PatchSpotStatus(h, "s1", "approved")
  \/ \E h \in OwnerHdrs, op \in PerUserOps, uid \in OwnerUids, body \in OwnerBodies :
       PerUserRoute(h, op, uid, body)

SpecOwner == Init /\ [][NextOwner]_vars

(* C16: a request whose path parameter is a malformed document id is
   answered 400 by the validation (or 401, 403, 404 by the middleware in
   front of it) and is never answered 500 by the global error handler. *)
C16_MalformedIdIsRejected ==
  (last.arg \in MalformedIds) => last.status \in {400, 401, 403, 404}

(* C17 as stated: for page >= 1 and 1 <= limit <= 100 the pages of the
   followers and of the following listing hold at most limit entries,
   totalPages is ceil(count / limit), pages 1..totalPages together are
   the stored list, entry by entry in stored order, a page beyond
   totalPages is empty; any other page or limit is answered 400. *)
C17_PagesCoverStoredList ==
  \A o \in UserIds, which \in {"followers", "following"} :
    users[o] # NoDoc =>
      LET L == users[o][which]
          R(page, limit) == IF which = "followers"
                            THEN routeFollowers(o, page, limit, users)
                            ELSE routeFollowing(o, page, limit, users)
      IN
      \A limit \in Limits, page \in Pages :
        IF page < 1 \/ limit < 1 \/ limit > 100
        THEN R(page, limit).status = 400
        ELSE LET r == R(page, limit) IN
          /\ r.status = 200
          /\ Len(r.out) <= limit
          /\ r.totalPages * limit >= Len(L)
          /\ (r.totalPages - 1) * limit < Len(L)
          /\ page > r.totalPages => r.out = <<>>
          /\ \A k \in 1 .. Len(r.out) :
               /\ (page - 1) * limit + k <= Len(L)
               /\ r.out[k] = L[(page - 1) * limit + k]
          /\ \A i \in 1 .. Len(L) :
               ((i - 1) \div limit) + 1 = page
               => /\ ((i - 1) % limit) + 1 <= Len(r.out)
                  /\ r.out[((i - 1) % limit) + 1] = L[i]

(* C17, amended: the same, for the list as the listing reads it: the
   stored entries whose user still exists, in stored order. An entry that
   names a deleted user is in no page and is not counted. *)
C17_PagesCoverPopulatedList ==
  \A o \in UserIds, which \in {"followers", "following"} :
    users[o] # NoDoc =>
      LET L == SelectSeq(users[o][which], LAMBDA f : users[f] # NoDoc)
          R(page, limit) == IF which = "followers"
                            THEN routeFollowers(o, page, limit, users)
                            ELSE routeFollowing(o, page, limit, users)
      IN
      \A limit \in Limits, page \in Pages :
        IF page < 1 \/ limit < 1 \/ limit > 100
        THEN R(page, limit).status = 400
        ELSE LET r == R(page, limit) IN
          /\ r.status = 200
          /\ Len(r.out) <= limit
          /\ r.totalPages * limit >= Len(L)
          /\ (r.totalPages - 1) * limit < Len(L)
          /\ page > r.totalPages => r.out = <<>>
          /\ \A k \in 1 .. Len(r.out) :
               /\ (page - 1) * limit + k <= Len(L)
               /\ r.out[k] = L[(page - 1) * limit + k]
          /\ \A i \in 1 .. Len(L) :
               ((i - 1) \div limit) + 1 = page
               => /\ ((i - 1) % limit) + 1 <= Len(r.out)
                  /\ r.out[((i - 1) % limit) + 1] = L[i]

(* the second page of a list of two followers, one entry a page, was
   served *)
C17_Witness ==
  /\ last.op = "routeFollowers"
  /\ last.status = 200
  /\ last.page = 2
  /\ last.limit = 1
  /\ Len(users[last.arg].followers) = 2
  /\ last.out = <<users[last.arg].followers[2]>>

(* C18: a registration with an email that a user already has is answered
   400 and creates nothing, also when that user was created by a
   registration that ran at the same time; and no two users have the same
   email. The user a registration has created itself is not counted
   against its own answer. *)
C18_DuplicateEmailIsRejected ==
  [][/\ (/\ last'.op = "signup"
         /\ last'.status # 0
         /\ \E o \in UserIds :
              /\ users[o] # NoDoc
              /\ users[o].email = last'.arg
              /\ ~\E r \in ReqIds : /\ pending[r].pc = "token"
                                     /\ pending'[r] = Idle
                                     /\ pending[r].id = o)
        => (last'.status = 400 /\ users' = users)
     /\ \A a, b \in UserIds :
          (a # b /\ users'[a] # NoDoc /\ users'[b] # NoDoc)
          => users'[a].email # users'[b].email]_vars

(* C20: a successful refresh with token T takes T out of the stored
   refreshTokens of the user and stores the new token, so T is not
   accepted again. *)
C20_RefreshTokenUsedOnce ==
  [][(last'.op = "refreshToken" /\ last'.status = 200)
     => /\ ~includes(users'[last'.tok.sub].refreshTokens, last'.tok)
        /\ includes(users'[last'.tok.sub].refreshTokens, last'.out[1])
        /\ refreshToken(last'.tok, now, users').status = 403]_vars

(* C19: the likedBy of a spot never holds the same user id twice,
   whatever the order in which the reads and the writes of concurrent
   like, unlike and favorites requests happen. *)
C19_LikedByHasNoDuplicates ==
  \A s \in SpotIds :
    spots[s] # NoDoc =>
      \A i, j \in 1 .. Len(spots[s].likedBy) :
        i # j => spots[s].likedBy[i] # spots[s].likedBy[j]

(* C21 as stated: a refresh token T that was sent to a client and that a
   refresh would now answer with 403, as it is after the logout with T,
   is answered 403 by every later refresh: no step makes T valid again. *)
C21_LoggedOutTokenStaysInvalid ==
  [][\A T \in LogoutTokens \ {NoRefreshToken} :
       (T \in issued /\ refreshToken(T, now, users).status = 403)
       => refreshToken(T, now', users').status = 403]_vars

(* C21, amended: a logout with the caller's refresh token T in the body
   takes T out of the caller's refreshTokens and keeps the other tokens,
   of the caller and of everybody else, so that a refresh with T is
   answered 403 for as long as no login signs T again; a logout without a
   token is answered 200 and changes nothing. *)
C21_LogoutRevokesToken ==
  [][(last'.op = "logout" /\ last'.status = 200)
     => LET o == last'.user.userId IN
        IF last'.tok = NoRefreshToken THEN users' = users
        ELSE /\ last'.tok.sub = o
                => /\ ~includes(users'[o].refreshTokens, last'.tok)
                   /\ refreshToken(last'.tok, now, users').status = 403
             /\ \A p \in UserIds :
                  users[p] # NoDoc
                  => /\ users'[p] # NoDoc
                     /\ \A i \in 1 .. Len(users[p].refreshTokens) :
                          LET t == users[p].refreshTokens[i] IN
                          (p # o \/ t # last'.tok)
                          => /\ includes(users'[p].refreshTokens, t)
                             /\ refreshToken(t, now, users').status = 200]_vars

(* user o2 held two refresh tokens and has logged out with the first *)
C21_Witness ==
  /\ last.op = "logout"
  /\ last.status = 200
  /\ last.tok = jwtSign("o2", 0, "7d")
  /\ users["o2"].refreshTokens = <<jwtSign("o2", 1, "7d")>>

(* C22: a login is answered 200 only when a user has the email and the
   password of the request is that user's; with an unknown email or a
   wrong password the request gets one answer, 403, and no stored state
   changes. *)
C22_LoginNeedsCredentials ==
  [][(last'.op \in {"login", "loginFb"} /\ isEmail(last'.arg))
     => LET known == UserIdOfEmail(users, last'.arg) # Undefined IN
        /\ last'.status = 200 => (known /\ last'.pw)
        /\ ~(known /\ last'.pw)
           => (last'.status = 403 /\ ~last'.again /\ users' = users)]_vars

(* C23 as stated: in every state, a request for a per-user resource of
   /api/users/:uid by an authenticated caller with another uid is
   answered 403, returns nothing and changes nothing. *)
C23_OtherUidIsForbidden ==
  \A h \in OwnerHdrs, op \in PerUserOps, uid \in OwnerUids, body \in OwnerBodies :
    LET a == authMiddlewareFirebase(h, users)
        r == perUser(op, h, uid, body, spots, users)
    IN (a.status = 0 /\ a.user.uid # uid)
       => /\ r.status = 403
          /\ r.out = <<>>
          /\ r.users = users
          /\ r.spots = spots

(* C23, amended: such a request returns nothing and changes nothing; it
   is answered 403 when its body and parameters pass the validators of the
   route, which run before the comparison of the uids, and 400 when they
   do not. *)
C23_OtherUidGetsNothing ==
  \A h \in OwnerHdrs, op \in PerUserOps, uid \in OwnerUids, body \in OwnerBodies :
    LET a == authMiddlewareFirebase(h, users)
        r == perUser(op, h, uid, body, spots, users)
    IN (a.status = 0 /\ a.user.uid # uid)
       => /\ r.status = (IF perUserValid(op, body) THEN 403 ELSE 400)
          /\ r.out = <<>>
          /\ r.users = users
          /\ r.spots = spots

(* user f2 was refused the interests of f3 after f3 had set them *)
C23_Witness ==
  /\ last.op = "routeSetInterests"
  /\ last.status = 403
  /\ last.user.uid = "f2"
  /\ last.arg = "f3"
  /\ users["o3"].interests = {"Temples"}

(* C24: in every state the averageRating of a spot is the mean of the
   ratings of its comments with one decimal (in tenths), 0 without
   comments, and so 0 or between 1 and 5. *)
C24_AverageRatingIsMean ==
  \A s \in SpotIds : spots[s] # NoDoc =>
    /\ spots[s].averageRating = averageRating(spots[s].comments)
    /\ spots[s].averageRating \in {0} \cup 10..50

(* C25: a report of an approved spot by a user who has already reported it
   is answered 400 and leaves the spots unchanged, and the reports of a
   spot never hold the same reportedBy twice. *)
C25_ReportedAtMostOnce ==
  /\ [][(/\ last'.op \in {"routeReportSpot", "reportSpot"}
          /\ last'.user # NoReqUser
          /\ last'.arg \in SpotIds
          /\ spots[last'.arg] # NoDoc
          /\ spots[last'.arg].status = "approved"
          /\ includes(spots[last'.arg].reports,
                      IF last'.op = "reportSpot" THEN last'.user.userId
                      ELSE UserIdOfUid(users, last'.user.uid)))
         => (last'.status = 400 /\ spots' = spots)]_vars
  /\ [](\A s \in SpotIds : spots[s] # NoDoc =>
          \A i, j \in 1..Len(spots[s].reports) :
            spots[s].reports[i] = spots[s].reports[j] => i = j)

(* C26: a follow of the caller themselves or of a user the caller already
   follows, and an unfollow of a user the caller does not follow, are
   answered 400 and change nothing; under sequential requests no user is
   in their own following or followers and no following list holds a
   user twice. *)
C26_FollowGuards ==
  /\ [][(/\ last'.op \in {"routeFollow", "routeUnfollow"}
          /\ authMiddlewareFirebase(last'.hdr, users).status = 0
          /\ UserIdOfUid(users, last'.user.uid) # Undefined
          /\ findById(users, last'.arg) # NoDoc)
         => LET o == UserIdOfUid(users, last'.user.uid)
                id == last'.arg
                refused == /\ last'.status = 400
                           /\ users' = users
                           /\ last'.emits = {}
            IN /\ (last'.op = "routeFollow"
                    /\ (o = id \/ includes(users[o].following, id))) => refused
               /\ (last'.op = "routeUnfollow"
                    /\ ~includes(users[o].following, id)) => refused]_vars
  /\ [](\A o \in UserIds : users[o] # NoDoc =>
          /\ ~includes(users[o].following, o)
          /\ ~includes(users[o].followers, o)
          /\ \A i, j \in 1..Len(users[o].following) :
               users[o].following[i] = users[o].following[j] => i = j)

(* user o2, who follows o3, asked to follow o3 again and was refused *)
C26_Witness ==
  /\ last.op = "routeFollow"
  /\ last.status = 400
  /\ last.arg = "o3"
  /\ last.user # NoReqUser
  /\ last.user.uid = "f2"
  /\ includes(users["o2"].following, "o3")

(* C27: in every state with no follow or unfollow request in progress,
   for existing users a and b, b is in a.following exactly when a is in
   b.followers. *)
C27_FollowIsSymmetric ==
  (\A r \in ReqIds : pending[r] = Idle)
  => \A a, b \in UserIds :
       (users[a] # NoDoc /\ users[b] # NoDoc)
       => (includes(users[a].following, b) <=> includes(users[b].followers, a))

(* C28: the room named by a user's uid has no member but the socket of
   that user, so an event sent to a user room reaches that user only. *)
C28_UserRoomIsOwn ==
  /\ \A j \in rooms : j.room \in Uids => j.uid = j.room
  /\ \A e \in last.emits : e.room \in Uids => receivers(e.room) \subseteq {e.room}

====
